---- MODULE Spec2Model ----
(***************************************************************************)
(* Capture and reconciliation of shading assignments (shadeset.materials). *)
(*                                                                         *)
(* Strings are sequences of one-character strings, so that the string      *)
(* operations of the source (lstrip, partition, startswith, count, ...)    *)
(* are computed character by character exactly as Python computes them.    *)
(* The host (maya.cmds) is modelled by the scene it holds: the dag paths   *)
(* it lists, and the shadingEngine nodes with their meta_uuid attribute.   *)
(***************************************************************************)
EXTENDS Integers, Sequences, FiniteSets, TLC

VARIABLES
    scene,        \* host: the dag paths of the scene, in the order cmds.ls lists them
    engines,      \* host: the shadingEngine nodes, [name, uuid], in cmds.ls order
    sets,         \* host: the member tokens ('path' or 'path.comp') of each shadingEngine
    connections,  \* host: the pairs <<a, b>> of dag nodes with an output of a feeding b
    selection,    \* host: the nodes selected, as cmds.ls(sl=True, long=True) lists them
    files,        \* the disk: the paths that exist
    code_modified,  \* callbacks: mel_proc['code_modified'] in MEL_PROC_CACHE, '' when unset
    callbacks,    \* host: the callbacks registered, in order, for each <<hook, owner>>
    assignments,  \* the snapshot handed to apply_material_assignments (a dict)
    args,         \* the arguments of the call under study
    matched_member_assignments,  \* apply_material_assignments: its entries, as appended
    best_shading_assignments,    \* apply_material_assignments: its entries, as appended
    calls,        \* the assign_shading_engine calls made, in order
    result,       \* the value returned by the function under study
    pc            \* "ready" before the call, "done" after it

vars == <<scene, engines, sets, connections, selection, files, code_modified,
          callbacks, assignments, args,
          matched_member_assignments, best_shading_assignments, calls, result,
          pc>>

\* Python's None
None == <<"None">>

-----------------------------------------------------------------------------
(* Python string methods, on sequences of characters *)

\* s.startswith(p)
StartsWith(s, p) ==
    /\ Len(p) <= Len(s)
    /\ SubSeq(s, 1, Len(p)) = p

\* s.endswith(p)
EndsWith(s, p) ==
    /\ Len(p) <= Len(s)
    /\ SubSeq(s, Len(s) - Len(p) + 1, Len(s)) = p

\* s.count(c) for a single character c
Count(s, c) == Cardinality({i \in 1..Len(s) : s[i] = c})

\* s.lstrip(c) for a single character c
Lstrip(s, c) ==
    LET keep == {i \in 1..Len(s) : s[i] # c}
    IN  IF keep = {} THEN <<>>
        ELSE SubSeq(s, CHOOSE i \in keep : \A j \in keep : i <= j, Len(s))

\* s.rstrip(c) for a single character c
Rstrip(s, c) ==
    LET keep == {i \in 1..Len(s) : s[i] # c}
    IN  IF keep = {} THEN <<>>
        ELSE SubSeq(s, 1, CHOOSE i \in keep : \A j \in keep : j <= i)

\* s.partition(c)[-1]: what follows the first c, '' when s holds no c
PartitionLast(s, c) ==
    LET at == {i \in 1..Len(s) : s[i] = c}
    IN  IF at = {} THEN <<>>
        ELSE SubSeq(s, (CHOOSE i \in at : \A j \in at : i <= j) + 1, Len(s))

\* s.rpartition(c)[-1]: what follows the last c, s itself when s holds no c
RpartitionLast(s, c) ==
    LET at == {i \in 1..Len(s) : s[i] = c}
    IN  IF at = {} THEN s
        ELSE SubSeq(s, (CHOOSE i \in at : \A j \in at : j <= i) + 1, Len(s))

\* the concatenation of a sequence of sequences, in order
RECURSIVE Flatten(_)
Flatten(ss) ==
    IF ss = <<>> THEN <<>> ELSE Head(ss) \o Flatten(Tail(ss))

\* the elements of s, each once, in the order of their first occurrence:
\* the key order of a dict filled by iterating s
RECURSIVE Distinct(_)
Distinct(s) ==
    IF s = <<>> THEN <<>>
    ELSE LET init == Distinct(SubSeq(s, 1, Len(s) - 1))
             last == s[Len(s)]
         IN  IF \E i \in 1..Len(init) : init[i] = last
             THEN init ELSE Append(init, last)

\* [f(s[1]), ..., f(s[n])]
MapSeq(f(_), s) == [i \in 1..Len(s) |-> f(s[i])]

Range(s) == {s[i] : i \in 1..Len(s)}

-----------------------------------------------------------------------------
(* The host: maya.cmds *)

\* A dag path with the namespace qualifier of every segment removed: what a
\* name pattern without namespaces is compared with under recursive=True.
RECURSIVE DropNamespaces(_)
DropNamespaces(p) ==
    IF p = <<>> THEN <<>>
    ELSE LET bar == {i \in 2..Len(p) : p[i] = "|"}
             stop == IF bar = {} THEN Len(p) + 1
                     ELSE CHOOSE i \in bar : \A j \in bar : i <= j
             seg == SubSeq(p, 1, stop - 1)
         IN  (IF Head(seg) = "|"
              THEN <<"|">> \o RpartitionLast(Tail(seg), ":")
              ELSE RpartitionLast(seg, ":"))
             \o DropNamespaces(SubSeq(p, stop, Len(p)))

\* cmds.ls('*' + rest, long=True, recursive=True): the dag paths of the scene
\* the pattern matches, in scene order. rest starts with '|'; '*' stands for
\* the ancestors above it, so a path matches when its trailing segments,
\* namespaces aside, are those of rest. A pattern that ends with '|' names
\* no node.
LsDag(rest) ==
    SelectSeq(scene, LAMBDA p : EndsWith(DropNamespaces(p), rest))

\* cmds.ls(name, recursive=True) for a shadingEngine name: the nodes so named
\* in any namespace
LsName(name) ==
    SelectSeq(engines, LAMBDA e :
        \/ e.name = name
        \/ EndsWith(e.name, <<":">> \o name))

\* cmds.ls(prefix + '*.meta_uuid', objectsOnly=True, recursive=True): the
\* nodes that have a meta_uuid attribute and whose name, in any namespace,
\* starts with prefix
LsUuidAttr(prefix) ==
    SelectSeq(engines, LAMBDA e :
        /\ e.uuid # None
        /\ \/ StartsWith(e.name, prefix)
           \/ \E i \in 1..Len(e.name) :
                /\ e.name[i] = ":"
                /\ StartsWith(SubSeq(e.name, i + 1, Len(e.name)), prefix))

-----------------------------------------------------------------------------
(* materials.py *)

\* get_uuid(path): the node's meta_uuid, None when it has no such attribute
get_uuid(e) == e.uuid

\* find_matching_paths that drops the first element of the path in strict
\* mode too
find_matching_paths_AlwaysLoose(path, root, namespace, strict) ==
    LET stripped == Lstrip(path, "|")
        rest == <<"|">> \o PartitionLast(stripped, "|")
    IN  SelectSeq(LsDag(rest), LAMBDA match :
            /\ ~ (/\ namespace # None
                  /\ namespace # <<>>
                  /\ ~ StartsWith(RpartitionLast(match, "|"), namespace))
            /\ StartsWith(match, Rstrip(root, "|") \o <<"|">>))

\* find_matching_paths whose loose pattern is the one the source keeps in a
\* comment: root.rstrip('|') + '|' + path.partition('|')[-1], the direct
\* descendants of root only
find_matching_paths_DirectOnly(path, root, namespace, strict) ==
    LET stripped == Lstrip(path, "|")
        rest == IF strict
                THEN <<"|">> \o stripped
                ELSE <<"|">> \o PartitionLast(stripped, "|")
    IN  SelectSeq(LsDag(rest), LAMBDA match :
            /\ ~ (/\ namespace # None
                  /\ namespace # <<>>
                  /\ ~ StartsWith(RpartitionLast(match, "|"), namespace))
            /\ StartsWith(match, Rstrip(root, "|") \o <<"|">>)
            /\ strict \/ Len(match) = Len(Rstrip(root, "|")) + Len(rest))

\* find_matching_paths without the test on the namespace of the leaf
find_matching_paths_AnyNamespace(path, root, namespace, strict) ==
    LET stripped == Lstrip(path, "|")
        rest == IF strict
                THEN <<"|">> \o stripped
                ELSE <<"|">> \o PartitionLast(stripped, "|")
    IN  SelectSeq(LsDag(rest), LAMBDA match :
            StartsWith(match, Rstrip(root, "|") \o <<"|">>))

\* find_matching_paths(path, root, namespace, strict)
find_matching_paths(path, root, namespace, strict) ==
    LET stripped == Lstrip(path, "|")
        rest == IF strict
                THEN <<"|">> \o stripped
                ELSE <<"|">> \o PartitionLast(stripped, "|")
    IN  SelectSeq(LsDag(rest), LAMBDA match :
            /\ ~ (/\ namespace # None
                  /\ namespace # <<>>
                  /\ ~ StartsWith(RpartitionLast(match, "|"), namespace))
            /\ StartsWith(match, Rstrip(root, "|") \o <<"|">>))

\* find_shading_engine that takes the first name match when the name is
\* ambiguous, without the scan of meta_uuid
find_shading_engine_NameFirst(shading_engine, uuid, namespace) ==
    LET given == namespace # None /\ namespace # <<>>
        name_lookup == IF given THEN namespace \o shading_engine
                       ELSE shading_engine
        uuid_prefix == IF given THEN namespace ELSE <<>>
        name_matches == LsName(name_lookup)
        uuid_matches ==
            IF uuid # None /\ uuid # <<>>
            THEN SelectSeq(LsUuidAttr(uuid_prefix),
                           LAMBDA e : get_uuid(e) = uuid)
            ELSE <<>>
    IN  IF name_matches # <<>> THEN name_matches[1].name
        ELSE IF uuid_matches # <<>> THEN uuid_matches[1].name
        ELSE None

\* find_shading_engine that scans meta_uuid before it looks at the name
find_shading_engine_UuidFirst(shading_engine, uuid, namespace) ==
    LET given == namespace # None /\ namespace # <<>>
        name_lookup == IF given THEN namespace \o shading_engine
                       ELSE shading_engine
        uuid_prefix == IF given THEN namespace ELSE <<>>
        name_matches == LsName(name_lookup)
        uuid_matches ==
            IF uuid # None /\ uuid # <<>>
            THEN SelectSeq(LsUuidAttr(uuid_prefix),
                           LAMBDA e : get_uuid(e) = uuid)
            ELSE <<>>
    IN  IF Len(uuid_matches) = 1 THEN uuid_matches[1].name
        ELSE IF Len(name_matches) = 1 THEN name_matches[1].name
        ELSE IF name_matches # <<>> THEN name_matches[1].name
        ELSE IF uuid_matches # <<>> THEN uuid_matches[1].name
        ELSE None

\* find_shading_engine whose last two tests are swapped: the first uuid
\* match is preferred to the first name match
find_shading_engine_UuidOverName(shading_engine, uuid, namespace) ==
    LET given == namespace # None /\ namespace # <<>>
        name_lookup == IF given THEN namespace \o shading_engine
                       ELSE shading_engine
        uuid_prefix == IF given THEN namespace ELSE <<>>
        name_matches == LsName(name_lookup)
        uuid_matches ==
            IF uuid # None /\ uuid # <<>>
            THEN SelectSeq(LsUuidAttr(uuid_prefix),
                           LAMBDA e : get_uuid(e) = uuid)
            ELSE <<>>
    IN  IF Len(name_matches) = 1 THEN name_matches[1].name
        ELSE IF Len(uuid_matches) = 1 THEN uuid_matches[1].name
        ELSE IF uuid_matches # <<>> THEN uuid_matches[1].name
        ELSE IF name_matches # <<>> THEN name_matches[1].name
        ELSE None

\* find_shading_engine(shading_engine, uuid, namespace): the name of the
\* node found, or None
find_shading_engine(shading_engine, uuid, namespace) ==
    LET given == namespace # None /\ namespace # <<>>
        name_lookup == IF given THEN namespace \o shading_engine
                       ELSE shading_engine
        uuid_prefix == IF given THEN namespace ELSE <<>>
        name_matches == LsName(name_lookup)
        uuid_matches ==
            IF uuid # None /\ uuid # <<>>
            THEN SelectSeq(LsUuidAttr(uuid_prefix),
                           LAMBDA e : get_uuid(e) = uuid)
            ELSE <<>>
    IN  IF Len(name_matches) = 1 THEN name_matches[1].name
        ELSE IF Len(uuid_matches) = 1 THEN uuid_matches[1].name
        ELSE IF name_matches # <<>> THEN name_matches[1].name
        ELSE IF uuid_matches # <<>> THEN uuid_matches[1].name
        ELSE None

\* '{}.{}'.format(path, comp) for each component of a member, or the path
\* alone for a member without components (materials.py 464-472)
Assignees(path, components) ==
    IF components # <<>>
    THEN MapSeq(LAMBDA comp : path \o <<".">> \o comp, components)
    ELSE <<path>>

\* The first loop of apply_material_assignments: the entries appended to
\* matched_member_assignments, in the order they are appended, each with the
\* live path it is appended under. order is the snapshot's groups in the
\* order assignments.items() yields them. The test that skips a group reads
\* shading_engine, the snapshot's key, not matching_shading_engine.
MatchedEntries(order, root, member_namespace, material_namespace, strict) ==
    Flatten(MapSeq(LAMBDA g :
        LET matching_shading_engine ==
                find_shading_engine(RpartitionLast(g.shadingEngine, ":"),
                                    g.meta_uuid, material_namespace)
        IN  IF g.shadingEngine = <<>> THEN <<>>
            ELSE Flatten(MapSeq(LAMBDA member :
                    MapSeq(LAMBDA match :
                               [match |-> match,
                                member |-> member,
                                shadingEngine |-> g.shadingEngine],
                           find_matching_paths(member.path, root,
                                               member_namespace, strict)),
                    g.members)),
        order))

\* BestAssignment with min in place of max: the shallowest member path wins
BestAssignment_Shallowest(cands) ==
    LET depth(i) == Count(cands[i].member.path, "|")
        pick == CHOOSE i \in 1..Len(cands) :
                    /\ \A j \in 1..Len(cands) : depth(i) <= depth(j)
                    /\ \A j \in 1..(i - 1) : depth(i) < depth(j)
    IN  cands[pick]

\* max(assignments, key=lambda x: x['member']['path'].count('|')): the first
\* entry of the list whose member path holds the most '|'
BestAssignment(cands) ==
    LET depth(i) == Count(cands[i].member.path, "|")
        pick == CHOOSE i \in 1..Len(cands) :
                    /\ \A j \in 1..Len(cands) : depth(j) <= depth(i)
                    /\ \A j \in 1..(i - 1) : depth(j) < depth(i)
    IN  cands[pick]

\* BestEntries without the choice of a best assignment: every candidate of
\* a live path is kept
BestEntries_KeepAll(matched) ==
    LET paths == Distinct(MapSeq(LAMBDA c : c.match, matched))
    IN  Flatten(MapSeq(LAMBDA path :
            MapSeq(LAMBDA c : [shadingEngine |-> c.shadingEngine,
                               path |-> path,
                               components |-> c.member.components],
                   SelectSeq(matched, LAMBDA c : c.match = path)),
            paths))

\* BestEntries that keeps the best assignment alone, not the other
\* candidates of its member path
BestEntries_OnlyBest(matched) ==
    LET paths == Distinct(MapSeq(LAMBDA c : c.match, matched))
    IN  MapSeq(LAMBDA path :
            LET c == BestAssignment(SelectSeq(matched,
                                              LAMBDA x : x.match = path))
            IN  [shadingEngine |-> c.shadingEngine,
                 path |-> path,
                 components |-> c.member.components],
            paths)

\* The second loop: for each live path, in the key order of
\* matched_member_assignments, the entries whose member path is the best
\* assignment's; each is appended to best_shading_assignments under its
\* shadingEngine.
BestEntries(matched) ==
    LET paths == Distinct(MapSeq(LAMBDA c : c.match, matched))
    IN  Flatten(MapSeq(LAMBDA path :
            LET cands == SelectSeq(matched, LAMBDA c : c.match = path)
                best_path == BestAssignment(cands).member.path
            IN  MapSeq(LAMBDA c : [shadingEngine |-> c.shadingEngine,
                                   path |-> path,
                                   components |-> c.member.components],
                       SelectSeq(cands, LAMBDA c : c.member.path = best_path)),
            paths))

\* BestCalls with one assign_shading_engine per entry of
\* best_shading_assignments, not one per key
BestCalls_PerEntry(best) ==
    MapSeq(LAMBDA b : [shading_engine |-> b.shadingEngine,
                       members |-> Assignees(b.path, b.components)],
           best)

\* The third loop: one assign_shading_engine(shading_engine, assignees) per
\* key of best_shading_assignments, in key order
BestCalls(best) ==
    LET keys == Distinct(MapSeq(LAMBDA b : b.shadingEngine, best))
    IN  MapSeq(LAMBDA k :
            [shading_engine |-> k,
             members |-> Flatten(MapSeq(
                 LAMBDA b : Assignees(b.path, b.components),
                 SelectSeq(best, LAMBDA b : b.shadingEngine = k)))],
            keys)

\* The assign_shading_engine calls apply_material_assignments sets out to
\* make when assignments.items() yields the groups in this order
apply_material_assignments(order, root, member_namespace, material_namespace, strict) ==
    BestCalls(BestEntries(MatchedEntries(order, root, member_namespace,
                                         material_namespace, strict)))

\* The assign_shading_engine calls apply_material_assignments_v0 sets out to
\* make: one per member that has matches, on the group find_shading_engine
\* returned (None when it found none: the test that should skip the group
\* reads shading_engine, the snapshot's key)
PlannedCallsV0(order, root, member_namespace, material_namespace, strict) ==
    Flatten(MapSeq(LAMBDA g :
        LET matching_shading_engine ==
                find_shading_engine(RpartitionLast(g.shadingEngine, ":"),
                                    g.meta_uuid, material_namespace)
        IN  IF g.shadingEngine = <<>> THEN <<>>
            ELSE Flatten(MapSeq(LAMBDA member :
                    LET matches == find_matching_paths(member.path, root,
                                       member_namespace, strict)
                    IN  IF matches = <<>> THEN <<>>
                        ELSE <<[shading_engine |-> matching_shading_engine,
                                members |-> Flatten(MapSeq(
                                    LAMBDA match :
                                        Assignees(match, member.components),
                                    matches))]>>,
                    g.members)),
        order))

-----------------------------------------------------------------------------
(* The host's sets: cmds.sets(members, edit=True, forceElement=set) *)

\* the components every shape of the model has
AllComponents == {<<"f", "1">>, <<"f", "2">>}

\* the node a member token names: the token up to its '.'
ObjectOf(token) ==
    LET dot == {i \in 1..Len(token) : token[i] = "."}
    IN  IF dot = {} THEN token
        ELSE SubSeq(token, 1, (CHOOSE i \in dot : \A j \in dot : i <= j) - 1)

\* the tokens a token covers: a whole node covers each of its components
Covered(token) ==
    IF ObjectOf(token) = token
    THEN {token} \cup {token \o <<".">> \o c : c \in AllComponents}
    ELSE {token}

\* whether a node named so exists: cmds.sets raises when forceElement names
\* no node
EngineExists(name) == \E i \in 1..Len(engines) : engines[i].name = name

\* What is left of a member token of another set once the tokens of moved
\* have left it: a whole node of which a component moved is left as its
\* other components
LeftOf(t, moved) ==
    IF t \in moved THEN {}
    ELSE IF ObjectOf(t) = t /\ Covered(t) \cap moved # {}
         THEN Covered(t) \ (moved \cup {t})
         ELSE {t}

\* A host that adds the members to engine without taking them from the set
\* that holds them: what a first-come-first-served assignment would need
ForceElement_KeepsHolder(S, engine, members) ==
    LET taken == UNION {Covered(x) : x \in UNION {S[o] : o \in DOMAIN S \ {engine}}}
    IN  [e \in DOMAIN S |->
            IF e = engine
            THEN S[e] \cup {m \in Range(members) : Covered(m) \cap taken = {}}
            ELSE S[e]]

\* The sets after cmds.sets(members, edit=True, forceElement=engine): the
\* members belong to engine, and to no other shadingEngine
ForceElement(S, engine, members) ==
    LET moved == UNION {Covered(m) : m \in Range(members)}
        held == S[engine] \cup Range(members)
    IN  [e \in DOMAIN S |->
            IF e = engine
            THEN {t \in held : ObjectOf(t) = t \/ ObjectOf(t) \notin held}
            ELSE UNION {LeftOf(t, moved) : t \in S[e]}]

\* The calls made before assign_shading_engine first raises, that call
\* included: no caller catches the exception
RECURSIVE CallsMade(_)
CallsMade(planned) ==
    IF planned = <<>> THEN <<>>
    ELSE IF ~ EngineExists(Head(planned).shading_engine)
         THEN <<Head(planned)>>
         ELSE <<Head(planned)>> \o CallsMade(Tail(planned))

\* whether the run ends with an exception
Raises(planned) ==
    \E i \in 1..Len(planned) : ~ EngineExists(planned[i].shading_engine)

\* The sets after the calls that succeeded
RECURSIVE SetsAfter(_, _)
SetsAfter(S, made) ==
    IF made = <<>> THEN S
    ELSE IF ~ EngineExists(Head(made).shading_engine) THEN S
         ELSE SetsAfter(ForceElement(S, Head(made).shading_engine,
                                     Head(made).members),
                        Tail(made))

\* the orders in which a dict's items can be iterated
Orders(S) ==
    {o \in [1..Cardinality(S) -> S] : \A i, j \in DOMAIN o : o[i] = o[j] => i = j}

-----------------------------------------------------------------------------
(* The scenes, snapshots and arguments explored *)

\* the most leaf nodes of a scene
MaxLeaves == 2

\* the most members of a snapshot group
MaxMembers == 2

\* the dag nodes a scene is made of, in the order the host lists them
NodeUniverse ==
    << <<"|", "g">>,
       <<"|", "g", "|", "a">>,
       <<"|", "g", "|", "b">>,
       <<"|", "g", "|", "b", "|", "a">>,
       <<"|", "r">>,
       <<"|", "r", "|", "g">>,
       <<"|", "r", "|", "g", "|", "a">>,
       <<"|", "r", "|", "g", "|", "b">>,
       <<"|", "r", "|", "g", "|", "b", "|", "a">> >>

LeafUniverse ==
    { <<"|", "g", "|", "a">>,
      <<"|", "g", "|", "b", "|", "a">>,
      <<"|", "r", "|", "g", "|", "a">>,
      <<"|", "r", "|", "g", "|", "b", "|", "a">> }

\* the scene that holds these leaves and their ancestors
SceneOf(leaves) ==
    SelectSeq(NodeUniverse, LAMBDA n :
        \E l \in leaves : l = n \/ StartsWith(l, n \o <<"|">>))

Scenes ==
    {SceneOf(L) : L \in {L \in SUBSET LeafUniverse :
                            Cardinality(L) \in 1..MaxLeaves}}

\* the member paths of a snapshot: relative to the root captured, whose last
\* segment leads them
MemberPaths ==
    { <<"g", "|", "a">>,
      <<"g", "|", "b", "|", "a">>,
      <<"x", "|", "b", "|", "a">> }

M1 == <<"m", "1">>
M2 == <<"m", "2">>
U1 == <<"u", "1">>
U2 == <<"u", "2">>

\* the one member path whose node is assigned by component
FacePath == <<"g", "|", "b", "|", "a">>

\* the members a group can hold: whole nodes, or the group's own component
\* of the node of FacePath
MembersOf(comp) ==
    {[path |-> p, components |-> <<>>] : p \in MemberPaths}
    \cup {[path |-> FacePath, components |-> <<comp>>]}

\* the member lists a group can hold: as format_members returns them, one
\* entry per path
MemberLists(comp, most) ==
    {ms \in UNION {[1..n -> MembersOf(comp)] : n \in 1..most} :
        \A i, j \in DOMAIN ms : ms[i].path = ms[j].path => i = j}

GroupsOf(name, uuid, comp, most) ==
    {[shadingEngine |-> name, meta_uuid |-> uuid, members |-> ms] :
        ms \in MemberLists(comp, most)}

\* the snapshots: a dict of one or two groups of at most so many members
SnapshotsOf(most) ==
    LET G1 == GroupsOf(M1, U1, <<"f", "1">>, most)
        G2 == GroupsOf(M2, U2, <<"f", "2">>, most)
    IN  {{g} : g \in G1 \cup G2} \cup {{g1, g2} : g1 \in G1, g2 \in G2}

\* a scene that holds both groups of the snapshot under their names
BothLive ==
    << [name |-> M1, uuid |-> U1], [name |-> M2, uuid |-> U2] >>

\* the shadingEngines of the scene: both groups of the snapshot, the first
\* alone, or the second in a namespace
EngineLists ==
    { BothLive,
      << [name |-> M1, uuid |-> U1] >>,
      << [name |-> M1, uuid |-> U1],
         [name |-> <<"A", ":">> \o M2, uuid |-> None] >> }

Roots == { <<"|">>, <<"|", "r">> }

NoSets == [n \in {engines[i].name : i \in 1..Len(engines)} |-> {}]

\* before a call of apply_material_assignments on one of these snapshots, in
\* a scene with one of these lists of shadingEngines
InitApply(snapshots, engineLists) ==
    /\ scene \in Scenes
    /\ connections = {}
    /\ selection = {}
    /\ files = {}
    /\ code_modified = <<>>
    /\ callbacks = <<>>
    /\ engines \in engineLists
    /\ sets = NoSets
    /\ assignments \in snapshots
    /\ args \in [root : Roots, member_namespace : {None},
                 material_namespace : {None}, strict : BOOLEAN]
    /\ matched_member_assignments = <<>>
    /\ best_shading_assignments = <<>>
    /\ calls = <<>>
    /\ result = None
    /\ pc = "ready"

\* every group of the snapshot is a shadingEngine of the scene
Init == InitApply(SnapshotsOf(MaxMembers), {BothLive})

\* some group of the snapshot may be missing from the scene, or live in a
\* namespace
InitResolve == InitApply(SnapshotsOf(1), EngineLists)

\* apply_material_assignments(assignments, root, member_namespace,
\* material_namespace, strict), the groups iterated in some order
ApplyMaterialAssignments ==
    /\ pc = "ready"
    /\ \E order \in Orders(assignments) :
        LET m == MatchedEntries(order, args.root, args.member_namespace,
                                args.material_namespace, args.strict)
            b == BestEntries(m)
            planned == BestCalls(b)
        IN  /\ matched_member_assignments' = m
            /\ best_shading_assignments' = b
            /\ calls' = CallsMade(planned)
            /\ sets' = SetsAfter(sets, CallsMade(planned))
            /\ result' = IF Raises(planned) THEN "raised" ELSE "returned"
    /\ pc' = "done"
    /\ UNCHANGED <<scene, connections, selection, files, engines, assignments, args,
                   code_modified, callbacks>>

\* apply_material_assignments_v0, with the same arguments
ApplyMaterialAssignmentsV0 ==
    /\ pc = "ready"
    /\ \E order \in Orders(assignments) :
        LET planned == PlannedCallsV0(order, args.root, args.member_namespace,
                                      args.material_namespace, args.strict)
        IN  /\ calls' = CallsMade(planned)
            /\ sets' = SetsAfter(sets, CallsMade(planned))
            /\ result' = IF Raises(planned) THEN "raised" ELSE "returned"
    /\ pc' = "done_v0"
    /\ UNCHANGED <<scene, connections, selection, files, engines, assignments, args,
                   matched_member_assignments, best_shading_assignments,
                   code_modified, callbacks>>

Next ==
    \/ ApplyMaterialAssignments
    \/ ApplyMaterialAssignmentsV0

Spec == Init /\ [][Next]_vars

SpecResolve == InitResolve /\ [][Next]_vars

-----------------------------------------------------------------------------
(* Reconciliation: which group each live path goes to *)

\* the live paths a call passes, whole or by component
PathsPassed(call) == {ObjectOf(t) : t \in Range(call.members)}

\* the candidates of a live path, as appended
CandidatesOf(path) ==
    SelectSeq(matched_member_assignments, LAMBDA c : c.match = path)

\* the entries kept for a live path, as appended
KeptOf(path) ==
    SelectSeq(best_shading_assignments, LAMBDA b : b.path = path)

\* the entry a candidate leaves in best_shading_assignments when it is kept
KeptEntry(c) ==
    [shadingEngine |-> c.shadingEngine, path |-> c.match,
     components |-> c.member.components]

Depth(member_path) == Count(member_path, "|")

ContestedPaths ==
    {c.match : c \in {x \in Range(matched_member_assignments) :
                         Len(CandidatesOf(x.match)) >= 2}}

\* C1, as stated: after apply_material_assignments no live path is passed to
\* assign_shading_engine for two different groups.
C1_OneGroupPerPath ==
    pc = "done" =>
        \A i, j \in 1..Len(calls) :
            i # j => PathsPassed(calls[i]) \cap PathsPassed(calls[j]) = {}

\* C1, amended: a live path is passed to assign_shading_engine for two
\* different groups only when both groups hold a snapshot member with one and
\* the same member path that matches the live path; two groups whose matching
\* member paths differ never both receive it.
C1_SharedOnlyOnSameMemberPath ==
    pc = "done" =>
        \A i, j \in 1..Len(calls) :
            i # j =>
                \A p \in PathsPassed(calls[i]) \cap PathsPassed(calls[j]) :
                    \E gi, gj \in assignments :
                        /\ gi.shadingEngine = calls[i].shading_engine
                        /\ gj.shadingEngine = calls[j].shading_engine
                        /\ \E mi \in Range(gi.members), mj \in Range(gj.members) :
                            /\ mi.path = mj.path
                            /\ p \in Range(find_matching_paths(mi.path,
                                   args.root, args.member_namespace,
                                   args.strict))
                            /\ \A c \in Range(CandidatesOf(p)) :
                                   Depth(c.member.path) <= Depth(mi.path)

\* a run in which one live path was passed for two groups, while a third
\* candidate of another member path also competed for it
C1_Witness ==
    /\ pc = "done"
    /\ \E i, j \in 1..Len(calls) :
        /\ i # j
        /\ \E p \in PathsPassed(calls[i]) \cap PathsPassed(calls[j]) :
              Len(CandidatesOf(p)) >= 3

\* C2: for a live path with two or more candidates, every entry kept comes
\* from a candidate whose member path has the greatest depth among the
\* candidates, and no more entries are kept than there are candidates of
\* that depth: the strictly shallower candidates are dropped.
C2_DeepestKept ==
    pc = "done" =>
        \A p \in ContestedPaths :
            LET cands == CandidatesOf(p)
                deepest == {i \in 1..Len(cands) :
                    \A j \in 1..Len(cands) :
                        Depth(cands[j].member.path) <= Depth(cands[i].member.path)}
            IN  /\ KeptOf(p) # <<>>
                /\ \A k \in Range(KeptOf(p)) :
                       \E i \in deepest : KeptEntry(cands[i]) = k
                /\ Len(KeptOf(p)) <= Cardinality(deepest)

\* a live path with a candidate strictly shallower than another
C2_Witness ==
    /\ pc = "done"
    /\ \E p \in ContestedPaths :
        \E c, d \in Range(CandidatesOf(p)) :
            /\ Depth(c.member.path) < Depth(d.member.path)
            /\ c.shadingEngine # d.shadingEngine

\* C3: for a contested live path there is one winning member path; the
\* entries kept are those of all the candidates with that member path, in
\* order, and of no other candidate; the components of each reach the
\* members passed to assign_shading_engine for its group.
C3_AllOfWinningPathKept ==
    pc = "done" =>
        \A p \in ContestedPaths :
            /\ \E w \in {c.member.path : c \in Range(CandidatesOf(p))} :
                   KeptOf(p) = MapSeq(KeptEntry,
                       SelectSeq(CandidatesOf(p), LAMBDA c : c.member.path = w))
            /\ \A k \in Range(KeptOf(p)) :
                   \E i \in 1..Len(calls) :
                       /\ calls[i].shading_engine = k.shadingEngine
                       /\ Range(Assignees(k.path, k.components))
                              \subseteq Range(calls[i].members)

\* a live path whose winning member path is held by two groups, each with
\* its own component, and contested by a candidate of another member path
C3_Witness ==
    /\ pc = "done"
    /\ \E p \in ContestedPaths :
        /\ Len(KeptOf(p)) >= 2
        /\ Len(CandidatesOf(p)) > Len(KeptOf(p))
        /\ \E k, l \in Range(KeptOf(p)) :
              /\ k.components # <<>>
              /\ l.components # <<>>
              /\ k.components # l.components

\* the result of a run, order aside: the members passed for each group
AsMap(cs) ==
    {[shading_engine |-> cs[i].shading_engine, members |-> Range(cs[i].members)] :
        i \in 1..Len(cs)}

\* C4, as stated: the result of apply_material_assignments is the same
\* whatever order the snapshot's groups are iterated in.
C4_OrderIndependent ==
    pc = "done" =>
        \A order \in Orders(assignments) :
            AsMap(apply_material_assignments(order, args.root,
                      args.member_namespace, args.material_namespace,
                      args.strict))
                = AsMap(calls)

\* C6, as stated: a snapshot group for which find_shading_engine finds no
\* live group is skipped: no member of it is matched, and no
\* assign_shading_engine call is made for it.
C6_UnresolvedSkipped ==
    /\ pc = "done" =>
        \A g \in assignments :
            find_shading_engine(RpartitionLast(g.shadingEngine, ":"),
                                g.meta_uuid, args.material_namespace) = None
            => /\ \A c \in Range(matched_member_assignments) :
                      c.shadingEngine # g.shadingEngine
               /\ \A i \in 1..Len(calls) :
                      calls[i].shading_engine # g.shadingEngine
    /\ pc = "done_v0" =>
        \A i \in 1..Len(calls) : calls[i].shading_engine # None

-----------------------------------------------------------------------------
(* find_shading_engine *)

\* the most shadingEngine nodes of a scene
MaxEngines == 3

NsA == <<"A", ":">>
NsB == <<"B", ":">>

\* the names a shadingEngine node can have: m1 in the root namespace, in a
\* namespace, in a nested namespace; m2
EngineNames == {M1, NsA \o M1, NsB \o M1, NsB \o NsA \o M1, M2}

\* the shadingEngine nodes of a scene, in the order the host lists them:
\* node names are unique, meta_uuid values need not be
EngineScenes ==
    {es \in UNION {[1..n -> [name : EngineNames, uuid : {None, U1, U2}]] :
                      n \in 0..MaxEngines} :
        \A i, j \in DOMAIN es : es[i].name = es[j].name => i = j}

InitFind ==
    /\ scene = <<>>
    /\ connections = {}
    /\ selection = {}
    /\ files = {}
    /\ code_modified = <<>>
    /\ callbacks = <<>>
    /\ engines \in EngineScenes
    /\ sets = NoSets
    /\ assignments = {}
    /\ args \in [shading_engine : {M1}, uuid : {None, U1},
                 namespace : {None, NsA}]
    /\ matched_member_assignments = <<>>
    /\ best_shading_assignments = <<>>
    /\ calls = <<>>
    /\ result = None
    /\ pc = "ready"

\* find_shading_engine(shading_engine, uuid, namespace)
FindShadingEngine ==
    /\ pc = "ready"
    /\ result' = find_shading_engine(args.shading_engine, args.uuid,
                                     args.namespace)
    /\ pc' = "done"
    /\ UNCHANGED <<scene, connections, selection, files, engines, sets, assignments, args,
                   matched_member_assignments, best_shading_assignments,
                   calls,
                   code_modified, callbacks>>

NextFind == FindShadingEngine

SpecFind == InitFind /\ [][NextFind]_vars

\* the name looked up: the namespace, when one is given, then the name
NameLookedUp ==
    IF args.namespace # None THEN args.namespace \o args.shading_engine
    ELSE args.shading_engine

\* the nodes the name lookup returns, in order
NameMatches == LsName(NameLookedUp)

\* the nodes of the scene that carry the meta_uuid asked for
UuidCarriers ==
    SelectSeq(engines, LAMBDA e : args.uuid # None /\ e.uuid = args.uuid)

\* the nodes that carry it among those the scan lists: the nodes of the
\* namespace asked for, all nodes when none is asked for
UuidMatches ==
    SelectSeq(LsUuidAttr(IF args.namespace # None THEN args.namespace
                         ELSE <<>>),
              LAMBDA e : args.uuid # None /\ e.uuid = args.uuid)

\* C7, as stated: when the name lookup returns zero or several nodes, a uuid
\* is given and exactly one node of the scene carries it, that node is
\* returned.
C7_UniqueUuidReturned ==
    (/\ pc = "done"
     /\ Len(NameMatches) # 1
     /\ args.uuid # None
     /\ Len(UuidCarriers) = 1)
    => result = UuidCarriers[1].name

\* C7, amended: when the name lookup returns zero or several nodes, a uuid
\* is given and exactly one node among those the scan lists (the nodes of
\* the namespace asked for; every node when no namespace is asked for)
\* carries it, that node is returned.
C7_UniqueUuidInNamespaceReturned ==
    (/\ pc = "done"
     /\ Len(NameMatches) # 1
     /\ args.uuid # None
     /\ Len(UuidMatches) = 1)
    => result = UuidMatches[1].name

\* the name is ambiguous, one node carries the uuid, and it is not the
\* first name match
C7_Witness ==
    /\ pc = "done"
    /\ Len(NameMatches) >= 2
    /\ args.uuid # None
    /\ Len(UuidMatches) = 1
    /\ UuidMatches[1].name # NameMatches[1].name
    /\ result = UuidMatches[1].name

\* C8: when exactly one node matches the name looked up, that node is
\* returned, whichever node carries the uuid given.
C8_UniqueNameReturned ==
    (pc = "done" /\ Len(NameMatches) = 1) => result = NameMatches[1].name

\* one node matches the name, and the uuid given is carried by one other node
C8_Witness ==
    /\ pc = "done"
    /\ Len(NameMatches) = 1
    /\ Len(UuidMatches) = 1
    /\ UuidMatches[1].name # NameMatches[1].name
    /\ result = NameMatches[1].name

\* C9: when neither the name lookup nor the uuid scan yields exactly one
\* node, the first name match is returned if there is one, otherwise the
\* first uuid match if there is one, otherwise None.
C9_FallbackOrder ==
    (/\ pc = "done"
     /\ Len(NameMatches) # 1
     /\ Len(UuidMatches) # 1)
    => result = IF NameMatches # <<>> THEN NameMatches[1].name
                ELSE IF UuidMatches # <<>> THEN UuidMatches[1].name
                ELSE None

\* several nodes match the name, several carry the uuid, and the first of
\* each differ
C9_Witness ==
    /\ pc = "done"
    /\ Len(NameMatches) >= 2
    /\ Len(UuidMatches) >= 2
    /\ UuidMatches[1].name # NameMatches[1].name
    /\ result = NameMatches[1].name

-----------------------------------------------------------------------------
(* find_matching_paths *)

\* the paths looked up: member paths of a snapshot, with or without the
\* leading '|'
PathsLookedUp ==
    MemberPaths \cup { <<"b", "|", "a">>,
                       <<"r", "|", "g", "|", "a">>,
                       <<"|", "g", "|", "a">> }

RootsLookedUp == { <<"|">>, <<"|", "r">>, <<"|", "g">> }

InitMatch ==
    /\ scene \in Scenes
    /\ connections = {}
    /\ selection = {}
    /\ files = {}
    /\ code_modified = <<>>
    /\ callbacks = <<>>
    /\ engines = <<>>
    /\ sets = NoSets
    /\ assignments = {}
    /\ args \in [path : PathsLookedUp, root : RootsLookedUp,
                 namespace : {None}, strict : BOOLEAN]
    /\ matched_member_assignments = <<>>
    /\ best_shading_assignments = <<>>
    /\ calls = <<>>
    /\ result = None
    /\ pc = "ready"

\* find_matching_paths(path, root, namespace, strict)
FindMatchingPaths ==
    /\ pc = "ready"
    /\ result' = find_matching_paths(args.path, args.root, args.namespace,
                                     args.strict)
    /\ pc' = "done"
    /\ UNCHANGED <<scene, connections, selection, files, engines, sets, assignments, args,
                   matched_member_assignments, best_shading_assignments,
                   calls,
                   code_modified, callbacks>>

NextMatch == FindMatchingPaths

SpecMatch == InitMatch /\ [][NextMatch]_vars

\* the segments of a dag path, leading and trailing '|' aside
RECURSIVE Segments(_)
Segments(p) ==
    LET q == Rstrip(Lstrip(p, "|"), "|")
        bar == {i \in 1..Len(q) : q[i] = "|"}
    IN  IF q = <<>> THEN <<>>
        ELSE IF bar = {} THEN <<q>>
        ELSE LET i == CHOOSE i \in bar : \A j \in bar : i <= j
             IN  <<SubSeq(q, 1, i - 1)>> \o Segments(SubSeq(q, i + 1, Len(q)))

\* the last n segments
LastSegments(segs, n) == SubSeq(segs, Len(segs) - n + 1, Len(segs))

\* a segment without its namespace qualifier
BareName(seg) == RpartitionLast(seg, ":")

\* the live path lies below root, segment by segment
Below(p, root) ==
    /\ Len(Segments(p)) > Len(Segments(root))
    /\ SubSeq(Segments(p), 1, Len(Segments(root))) = Segments(root)

\* the trailing segments of the live path, namespaces aside, are segs
TrailingAre(p, segs) ==
    /\ Len(segs) <= Len(Segments(p))
    /\ MapSeq(BareName, LastSegments(Segments(p), Len(segs))) = segs

\* C10, as stated: with strict=True only the live path that equals root
\* followed by the pattern, segment for segment, is returned (the pattern's
\* first segment being root's last one or the one below it): a live path
\* with further segments between root and the pattern is not returned.
C10_StrictIsRootThenPattern ==
    (pc = "done" /\ args.strict) =>
        \A i \in 1..Len(result) :
            \/ Segments(result[i]) = Segments(args.root) \o Segments(args.path)
            \/ /\ Segments(args.root) # <<>>
               /\ Segments(args.path) # <<>>
               /\ Head(Segments(args.path))
                      = Segments(args.root)[Len(Segments(args.root))]
               /\ Segments(result[i])
                      = Segments(args.root) \o Tail(Segments(args.path))

\* C10, amended: with strict=True the live paths returned are those that lie
\* below root and whose trailing segments are all the segments of the
\* pattern, its first segment included; segments between root and the pattern
\* do not exclude a path, and root's own last segment may be the pattern's
\* first.
C10_StrictIsWholePatternBelowRoot ==
    (pc = "done" /\ args.strict) =>
        /\ Range(result) =
               {p \in Range(scene) :
                   Below(p, args.root) /\ TrailingAre(p, Segments(args.path))}
        /\ \A i, j \in 1..Len(result) : result[i] = result[j] => i = j

\* a strict lookup that returns a live path with a segment between root and
\* the pattern
C10_Witness ==
    /\ pc = "done"
    /\ args.strict
    /\ args.root # <<"|">>
    /\ \E i \in 1..Len(result) :
          Len(Segments(result[i]))
              > Len(Segments(args.root)) + Len(Segments(args.path))

-----------------------------------------------------------------------------
(* find_matching_paths in a scene with namespaces *)

\* scenes whose nodes lie in namespaces: a referenced copy beside the
\* original, a leaf in a nested namespace, a namespaced parent
NamespacedScenes ==
    { << <<"|", "g">>, <<"|", "g", "|", "A", ":", "a">> >>,
      << <<"|", "g">>, <<"|", "g", "|", "a">>,
         <<"|", "g", "|", "A", ":", "a">> >>,
      << <<"|", "A", ":", "g">>, <<"|", "A", ":", "g", "|", "A", ":", "a">>,
         <<"|", "g">>, <<"|", "g", "|", "a">> >>,
      << <<"|", "g">>, <<"|", "g", "|", "A", ":", "b">>,
         <<"|", "g", "|", "A", ":", "b", "|", "a">>,
         <<"|", "g", "|", "A", ":", "b", "|", "A", ":", "a">> >>,
      << <<"|", "g">>, <<"|", "g", "|", "A", ":", "B", ":", "a">>,
         <<"|", "g", "|", "B", ":", "A", ":", "a">> >>,
      << <<"|", "r">>, <<"|", "r", "|", "g">>,
         <<"|", "r", "|", "g", "|", "A", ":", "a">>,
         <<"|", "r", "|", "g", "|", "b">>,
         <<"|", "r", "|", "g", "|", "b", "|", "a">> >> }

\* the namespace argument: not given, the empty string, 'A:'
NamespacesLookedUp == {None, <<>>, NsA}

InitMatchNamespace ==
    /\ scene \in Scenes \cup NamespacedScenes
    /\ connections = {}
    /\ selection = {}
    /\ files = {}
    /\ code_modified = <<>>
    /\ callbacks = <<>>
    /\ engines = <<>>
    /\ sets = NoSets
    /\ assignments = {}
    /\ args \in [path : PathsLookedUp, root : RootsLookedUp,
                 namespace : NamespacesLookedUp, strict : BOOLEAN]
    /\ matched_member_assignments = <<>>
    /\ best_shading_assignments = <<>>
    /\ calls = <<>>
    /\ result = None
    /\ pc = "ready"

SpecMatchNamespace == InitMatchNamespace /\ [][NextMatch]_vars

\* `if namespace`: a namespace is given and is not the empty string
NamespaceGiven == args.namespace # None /\ args.namespace # <<>>

\* the segments of the pattern a live path must end with: all of them in
\* strict mode, all but the first otherwise
WantedSegments ==
    IF args.strict THEN Segments(args.path) ELSE Tail(Segments(args.path))

\* the live paths below root that end with the wanted segments, namespace
\* qualifiers aside
PathsWanted ==
    {p \in Range(scene) : Below(p, args.root) /\ TrailingAre(p, WantedSegments)}

\* the last segment of a live path
Leaf(p) == Segments(p)[Len(Segments(p))]

\* C11: with strict=False and no namespace given, for a pattern of two or
\* more segments, the live paths returned are exactly those below root whose
\* trailing segments (namespace qualifiers aside) are the pattern's segments
\* after its first, each returned once.
C11_LooseIsTrailingBelowRoot ==
    (/\ pc = "done"
     /\ ~ args.strict
     /\ ~ NamespaceGiven
     /\ Len(Segments(args.path)) >= 2)
    => /\ Range(result) =
              {p \in Range(scene) :
                  /\ Below(p, args.root)
                  /\ TrailingAre(p, Tail(Segments(args.path)))}
       /\ \A i, j \in 1..Len(result) : result[i] = result[j] => i = j

\* a loose lookup below a root other than '|' that returns a path with a
\* segment between root and the trailing segments, and leaves out a path
\* that ends the same way outside root
C11_Witness ==
    /\ pc = "done"
    /\ ~ args.strict
    /\ ~ NamespaceGiven
    /\ args.root # <<"|">>
    /\ \E i \in 1..Len(result) :
          Len(Segments(result[i]))
              > Len(Segments(args.root)) + Len(Segments(args.path)) - 1
    /\ \E p \in Range(scene) :
          /\ TrailingAre(p, Tail(Segments(args.path)))
          /\ ~ Below(p, args.root)
          /\ p \notin Range(result)

\* C12: with a namespace given, the live paths returned are the wanted paths
\* whose last segment starts with the namespace string, and no other; with
\* no namespace given every wanted path is returned.
C12_NamespaceFiltersLeaf ==
    pc = "done" =>
        Range(result) =
            IF NamespaceGiven
            THEN {p \in PathsWanted : StartsWith(Leaf(p), args.namespace)}
            ELSE PathsWanted

\* a lookup with namespace 'A:' that returns a path and leaves out a wanted
\* path whose leaf is not in the namespace
C12_Witness ==
    /\ pc = "done"
    /\ NamespaceGiven
    /\ result # <<>>
    /\ \E p \in PathsWanted :
          /\ ~ StartsWith(Leaf(p), args.namespace)
          /\ p \notin Range(result)

-----------------------------------------------------------------------------
(* collect_material_assignments *)

\* a character of [A-Za-z0-9_]
IsWordChar(c) == c \notin {"|", ":", "."}

\* re.sub(r'[A-Za-z0-9_]+\:', '', obj): every run of word characters that a
\* ':' follows is removed with that ':'
RECURSIVE ReSubNamespace(_)
ReSubNamespace(obj) ==
    LET colons == {i \in 2..Len(obj) : obj[i] = ":" /\ IsWordChar(obj[i - 1])}
    IN  IF colons = {} THEN obj
        ELSE LET i == CHOOSE i \in colons : \A j \in colons : i <= j
                 start == CHOOSE k \in 1..(i - 1) :
                     /\ \A n \in k..(i - 1) : IsWordChar(obj[n])
                     /\ k = 1 \/ ~ IsWordChar(obj[k - 1])
             IN  SubSeq(obj, 1, start - 1)
                     \o ReSubNamespace(SubSeq(obj, i + 1, Len(obj)))

\* name.split('.') for a name with one '.': what follows it
ComponentOf(token) ==
    LET dot == {i \in 1..Len(token) : token[i] = "."}
    IN  IF dot = {} THEN <<>>
        ELSE SubSeq(token, (CHOOSE i \in dot : \A j \in dot : i <= j) + 1,
                    Len(token))

\* s.replace(old, '', 1) for an s that starts with old
ReplaceFirst(s, old) == SubSeq(s, Len(old) + 1, Len(s))

\* get_hierarchy(root): cmds.ls(root, dag=True, long=True), the node at root
\* and the nodes below it; every node of the scene when root is '|'. A root
\* without a leading '|' is a partial path: it names the nodes whose path
\* ends with it.
get_hierarchy(root) ==
    IF root = <<"|">> THEN scene
    ELSE LET named(n) == IF Head(root) = "|" THEN n = root
                         ELSE EndsWith(n, <<"|">> \o root)
         IN  SelectSeq(scene, LAMBDA n :
                 \E top \in Range(scene) :
                     /\ named(top)
                     /\ n = top \/ StartsWith(n, top \o <<"|">>))

\* the component selectors a member token can carry: one face, or a range
\* of faces 'f[0:n]'
ComponentOrder ==
    << <<"f", "1">>, <<"f", "2">>,
       <<"f", "[", "0", ":", "0", "]">>, <<"f", "[", "0", ":", "1", "]">> >>

\* the members of a set in the order cmds.sets(query=True) lists them
MemberTokens(S) ==
    Flatten(MapSeq(LAMBDA n :
        (IF n \in S THEN <<n>> ELSE <<>>)
        \o Flatten(MapSeq(LAMBDA comp :
               IF n \o <<".">> \o comp \in S
               THEN <<n \o <<".">> \o comp>> ELSE <<>>,
               ComponentOrder)),
        scene))

\* get_members(shading_engine)
get_members(shading_engine) == MemberTokens(sets[shading_engine])

\* cmds.listHistory(nodes, future=True), its dag nodes: the nodes and every
\* node an output of theirs feeds, directly or through other nodes
RECURSIVE Future(_)
Future(nodes) ==
    LET fed == nodes \cup {c[2] : c \in {c \in connections : c[1] \in nodes}}
    IN  IF fed = nodes THEN nodes ELSE Future(fed)

\* get_shading_engines(*nodes): the shadingEngines in the future of the
\* nodes, those with a member among the nodes or among the nodes they feed
get_shading_engines(nodes) ==
    SelectSeq(MapSeq(LAMBDA e : e.name, engines), LAMBDA name :
        \E t \in sets[name] : ObjectOf(t) \in Future(Range(nodes)))

\* filter_members_in_hierarchy(members, hierarchy)
filter_members_in_hierarchy(members, hierarchy) ==
    SelectSeq(members, LAMBDA member : ObjectOf(member) \in Range(hierarchy))

\* get_relative_paths(paths, root). anchor is bound only for a root that
\* holds a '|'; the paths handed in are long names, which start with '|', so
\* none starts with a root that holds no '|' and anchor is not read then.
get_relative_paths(paths, root) ==
    LET anchor == IF Count(root, "|") > 0
                  THEN RpartitionLast(Rstrip(root, "|"), "|")
                  ELSE <<"UnboundLocalError">>
    IN  MapSeq(LAMBDA path :
            IF StartsWith(path, root)
            THEN anchor \o <<"|">> \o Lstrip(ReplaceFirst(path, root), "|")
            ELSE path,
            paths)

\* remove_namespaces that removes the first namespace qualifier only
remove_namespaces_Once(names) ==
    MapSeq(LAMBDA name :
        LET obj == ObjectOf(name)
            comp == ComponentOf(name)
            colons == {i \in 2..Len(obj) :
                          obj[i] = ":" /\ IsWordChar(obj[i - 1])}
            first == CHOOSE i \in colons : \A j \in colons : i <= j
            start == CHOOSE k \in 1..(first - 1) :
                /\ \A n \in k..(first - 1) : IsWordChar(obj[n])
                /\ k = 1 \/ ~ IsWordChar(obj[k - 1])
            once == IF colons = {} THEN obj
                    ELSE SubSeq(obj, 1, start - 1)
                             \o SubSeq(obj, first + 1, Len(obj))
        IN  IF comp # <<>> THEN once \o <<".">> \o comp ELSE once,
        names)

\* remove_namespaces(names)
remove_namespaces(names) ==
    MapSeq(LAMBDA name :
        LET obj == ReSubNamespace(ObjectOf(name))
            comp == ComponentOf(name)
        IN  IF comp # <<>> THEN obj \o <<".">> \o comp ELSE obj,
        names)

\* format_members that keeps, for each path, only the last component seen
format_members_LastComponent(members) ==
    LET keys == Distinct(MapSeq(ObjectOf, members))
    IN  MapSeq(LAMBDA k :
            LET comps == MapSeq(ComponentOf,
                    SelectSeq(members, LAMBDA m :
                        ObjectOf(m) = k /\ m # ObjectOf(m)))
            IN  [path |-> k,
                 components |-> IF comps = <<>> THEN <<>>
                                ELSE <<comps[Len(comps)]>>],
            keys)

\* format_members(members): one dict per path, with the components of its
\* tokens in order; the dicts in the order the paths are first seen, which
\* is the order items() yields on Python 3.7 and later (format_members_returns
\* gives the orders any interpreter can yield)
format_members(members) ==
    LET keys == Distinct(MapSeq(ObjectOf, members))
    IN  MapSeq(LAMBDA k :
            [path |-> k,
             components |-> MapSeq(ComponentOf,
                 SelectSeq(members, LAMBDA m :
                     ObjectOf(m) = k /\ m # ObjectOf(m)))],
            keys)

\* the members entry of a shadingEngine in collect_material_assignments
CollectedMembers(shading_engine, root) ==
    format_members(remove_namespaces(get_relative_paths(
        filter_members_in_hierarchy(get_members(shading_engine),
                                    get_hierarchy(root)),
        root)))

\* the values str(uuid.uuid4()) can take
UuidPool == {U1, U2, <<"u", "3">>, <<"u", "4">>}

\* assign_uuid that sets a new value whether or not force is given
AssignUuids_AlwaysForce(names, force, tagged) ==
    MapSeq(LAMBDA e :
        IF e.name \in Range(names)
        THEN [e EXCEPT !.uuid = tagged[e.name]]
        ELSE e,
        engines)

\* assign_uuid(path, force) on each of these shadingEngines, tagged[name]
\* being the value uuid4 gives for it: the meta_uuid of each node afterwards
AssignUuids(names, force, tagged) ==
    MapSeq(LAMBDA e :
        IF e.name \in Range(names) /\ (e.uuid = None \/ force)
        THEN [e EXCEPT !.uuid = tagged[e.name]]
        ELSE e,
        engines)

\* collect_material_assignments(root, update_uuids): the dict returned, given
\* the nodes as assign_uuid leaves them
collect_material_assignments(root, after) ==
    {[shadingEngine |-> name,
      meta_uuid |-> (CHOOSE e \in Range(after) : e.name = name).uuid,
      members |-> CollectedMembers(name, root)] :
        name \in Range(get_shading_engines(get_hierarchy(root)))}

\* the ways the leaves of a scene are assigned: a leaf is in no set, whole
\* in one of the two sets, or split by component between them
Assigned(leaf) ==
    { [e \in {M1, M2} |-> {}],
      [e \in {M1, M2} |-> IF e = M1 THEN {leaf} ELSE {}],
      [e \in {M1, M2} |-> IF e = M2 THEN {leaf} ELSE {}],
      [e \in {M1, M2} |-> IF e = M1 THEN {leaf \o <<".", "f", "1">>}
                          ELSE {leaf \o <<".", "f", "2">>}] }

RECURSIVE SetsOver(_)
SetsOver(leaves) ==
    IF leaves = {} THEN { [e \in {M1, M2} |-> {}] }
    ELSE LET l == CHOOSE l \in leaves : TRUE
         IN  {[e \in {M1, M2} |-> a[e] \cup r[e]] :
                 a \in Assigned(l), r \in SetsOver(leaves \ {l})}

\* the two shadingEngines, not yet tagged or tagged by an earlier capture
EngineTags ==
    { << [name |-> M1, uuid |-> None], [name |-> M2, uuid |-> None] >>,
      BothLive }

\* the roots captured are transforms above the shapes, or the scene's root
InitRoundTrip ==
    /\ scene \in Scenes
    /\ connections = {}
    /\ selection = {}
    /\ files = {}
    /\ code_modified = <<>>
    /\ callbacks = <<>>
    /\ engines \in EngineTags
    /\ sets \in SetsOver(Range(scene) \cap LeafUniverse)
    /\ assignments = {}
    /\ args \in [root : (Range(scene) \ LeafUniverse) \cup {<<"|">>},
                 update_uuids : BOOLEAN]
    /\ matched_member_assignments = <<>>
    /\ best_shading_assignments = <<>>
    /\ calls = <<>>
    /\ result = None
    /\ pc = "capture"

\* collect_material_assignments(root, update_uuids); the dict it returns is
\* then handed to apply_material_assignments with the same root, as
\* tools.copy_shadeset and tools.paste_shadeset do
CollectMaterialAssignments ==
    /\ pc = "capture"
    /\ \E tagged \in [{M1, M2} -> UuidPool] :
        LET names == get_shading_engines(get_hierarchy(args.root))
            after == AssignUuids(names, args.update_uuids, tagged)
        IN  /\ tagged[M1] # tagged[M2]
            /\ \A n \in {M1, M2} : \A e \in Range(engines) :
                   tagged[n] # e.uuid
            /\ engines' = after
            /\ assignments' = collect_material_assignments(args.root, after)
    /\ result' = "collected"
    /\ args' = [root |-> args.root, member_namespace |-> None,
                material_namespace |-> None, strict |-> FALSE]
    /\ pc' = "ready"
    /\ UNCHANGED <<scene, connections, selection, files, sets, matched_member_assignments,
                   best_shading_assignments, calls,
                   code_modified, callbacks>>

NextRoundTrip ==
    \/ CollectMaterialAssignments
    \/ ApplyMaterialAssignments

SpecRoundTrip == InitRoundTrip /\ [][NextRoundTrip]_vars

\* the members a set holds below root, root included
HeldBelow(S, root) ==
    {t \in S : ObjectOf(t) \in Range(get_hierarchy(root))}

\* C5, as stated: applying what collect_material_assignments(root) returned
\* to the unmodified scene, with the same root, passes for every captured
\* group exactly the members it held below root, and leaves every set as it
\* was.
C5_RoundTripIsIdentity ==
    [][(pc = "ready" /\ pc' = "done") =>
        /\ \A e \in DOMAIN sets :
               HeldBelow(sets[e], args.root) # {} =>
                   \E i \in 1..Len(calls') :
                       /\ calls'[i].shading_engine = e
                       /\ Range(calls'[i].members)
                              = HeldBelow(sets[e], args.root)
        /\ sets' = sets]_vars

-----------------------------------------------------------------------------
(* format_members *)

\* the most tokens handed to format_members
MaxTokens == 3

\* member tokens of two nodes: the whole node, or one of its faces
TokenUniverse ==
    { <<"x">>, <<"x", ".", "f", "1">>, <<"x", ".", "f", "2">>,
      <<"y">>, <<"y", ".", "f", "1">> }

\* the lists format_members can return. components_map is a plain dict and
\* the module runs on Python 2.7 as on Python 3 (its basestring fallback,
\* its __future__ imports): items() yields the keys in insertion order on
\* Python 3.7 and later, in an order of the interpreter's choosing before.
format_members_returns(members) == Orders(Range(format_members(members)))

InitFormat ==
    /\ scene = <<>>
    /\ connections = {}
    /\ selection = {}
    /\ files = {}
    /\ code_modified = <<>>
    /\ callbacks = <<>>
    /\ engines = <<>>
    /\ sets = NoSets
    /\ assignments = {}
    /\ args \in [members : UNION {[1..n -> TokenUniverse] : n \in 0..MaxTokens}]
    /\ matched_member_assignments = <<>>
    /\ best_shading_assignments = <<>>
    /\ calls = <<>>
    /\ result = None
    /\ pc = "ready"

\* format_members(members)
FormatMembers ==
    /\ pc = "ready"
    /\ result' \in format_members_returns(args.members)
    /\ pc' = "done"
    /\ UNCHANGED <<scene, connections, selection, files, engines, sets, assignments, args,
                   matched_member_assignments, best_shading_assignments,
                   calls,
                   code_modified, callbacks>>

NextFormat == FormatMembers

SpecFormat == InitFormat /\ [][NextFormat]_vars

\* the entity paths of the tokens, each once, in first-seen order
EntitiesSeen == Distinct(MapSeq(ObjectOf, args.members))

\* the component selectors of the tokens of an entity, in input order
SelectorsOf(entity) ==
    MapSeq(ComponentOf,
           SelectSeq(args.members, LAMBDA m :
               ObjectOf(m) = entity /\ ComponentOf(m) # <<>>))

\* every record holds the selectors of its entity in input order
RecordsComplete ==
    \A i \in 1..Len(result) :
        result[i].components = SelectorsOf(result[i].path)

\* C13, as stated: one record per distinct entity path, the records in
\* first-seen order of the entities, each with the component selectors of
\* its tokens in input order (none for a token without a component).
C13_RecordsInFirstSeenOrder ==
    pc = "done" =>
        /\ MapSeq(LAMBDA m : m.path, result) = EntitiesSeen
        /\ RecordsComplete

\* C13, amended: one record per distinct entity path, each with the
\* component selectors of its tokens in input order; the records come in the
\* order the dict yields its keys, which is an arrangement of the entities
\* seen and need not be the first-seen one.
C13_OneRecordPerEntity ==
    pc = "done" =>
        /\ Len(result) = Len(EntitiesSeen)
        /\ {result[i].path : i \in 1..Len(result)} = Range(EntitiesSeen)
        /\ RecordsComplete

\* two entities, one with two selectors and one without any
C13_Witness ==
    /\ pc = "done"
    /\ Len(result) = 2
    /\ \E i \in 1..2 : Len(result[i].components) = 2
    /\ \E i \in 1..2 : result[i].components = <<>>

\* C14, as stated: when the tokens hold a whole entity and a component of
\* the same entity, in either order, the record of that entity has an empty
\* components list.
C14_WholeEntityWins ==
    pc = "done" =>
        \A i \in 1..Len(result) :
            (/\ result[i].path \in Range(args.members)
             /\ SelectorsOf(result[i].path) # <<>>)
            => result[i].components = <<>>

-----------------------------------------------------------------------------
(* collect_material_assignments, called again and again on one scene *)

\* the number of faces cmds.polyEvaluate(shape, face=True) reports
NumFaces == 2

\* the selector of faces 0 to n
FaceRange(n) ==
    <<"f", "[", "0", ":">> \o <<(<<"0", "1", "2", "3">>)[n + 1]>> \o <<"]">>

\* utils.filter_bad_face_assignments(nodes): a member '<shape>.f[0:n]' with
\* n + 1 the number of faces of the shape is shortened to '<shape>'.
\* collect_material_assignments does not call it; models.py does, on the
\* members utils.get_members returns.
filter_bad_face_assignments(nodes) ==
    MapSeq(LAMBDA node :
        IF \E n \in 0..3 : /\ ComponentOf(node) = FaceRange(n)
                           /\ n + 1 = NumFaces
        THEN ObjectOf(node) ELSE node,
        nodes)

\* the scenes captured: same-named groups at two depths, a group below
\* another node with shapes at two depths, a referenced group in a namespace
CaptureScenes ==
    { << <<"|", "g">>, <<"|", "g", "|", "a">>,
         <<"|", "r">>, <<"|", "r", "|", "g">>, <<"|", "r", "|", "g", "|", "a">> >>,
      << <<"|", "r">>, <<"|", "r", "|", "g">>, <<"|", "r", "|", "g", "|", "a">>,
         <<"|", "r", "|", "g", "|", "b">>,
         <<"|", "r", "|", "g", "|", "b", "|", "a">> >>,
      << <<"|", "A", ":", "g">>, <<"|", "A", ":", "g", "|", "A", ":", "a">>,
         <<"|", "g">>, <<"|", "g", "|", "a">> >> }

\* the shapes of a scene: its nodes without a child
Shapes(nodes) ==
    {n \in Range(nodes) :
        ~ \E c \in Range(nodes) : StartsWith(c, n \o <<"|">>)}

\* the ways a shape is assigned: to no set, whole to one set, by one face to
\* each set, by a range of all its faces, by a range of some of them
CaptureAssigned(shape) ==
    Assigned(shape) \cup
    { [e \in {M1, M2} |->
          IF e = M1 THEN {shape \o <<".">> \o FaceRange(NumFaces - 1)}
          ELSE {}],
      [e \in {M1, M2} |->
          IF e = M1 THEN {shape \o <<".">> \o FaceRange(0)} ELSE {}] }

RECURSIVE CaptureSetsOver(_)
CaptureSetsOver(shapes) ==
    IF shapes = {} THEN { [e \in {M1, M2} |-> {}] }
    ELSE LET l == CHOOSE l \in shapes : TRUE
         IN  {[e \in {M1, M2} |-> a[e] \cup r[e]] :
                 a \in CaptureAssigned(l), r \in CaptureSetsOver(shapes \ {l})}

\* the connections between shapes: none, or the output of one shape feeding
\* another (outMesh to inMesh)
ShapeConnections(shapes) ==
    {{}} \cup {{c} : c \in {c \in shapes \X shapes : c[1] # c[2]}}

\* the roots captured: the scene's root, a group by its long name, the
\* group g by its short name
CaptureRoots ==
    {<<"|">>, <<"g">>} \cup (Range(scene) \ Shapes(scene))

InitCapture ==
    /\ scene \in CaptureScenes
    /\ connections \in ShapeConnections(Shapes(scene))
    /\ selection = {}
    /\ files = {}
    /\ code_modified = <<>>
    /\ callbacks = <<>>
    /\ engines \in EngineTags
    /\ sets \in CaptureSetsOver(Shapes(scene))
    /\ assignments = {}
    /\ args = None
    /\ matched_member_assignments = <<>>
    /\ best_shading_assignments = <<>>
    /\ calls = <<>>
    /\ result = {}
    /\ pc = "capture"

\* the values uuid.uuid4() gives the two shadingEngines: values no node
\* carries. Which of the unused values it gives makes no difference to any
\* node, so the first unused ones are taken.
FreshUuids ==
    LET unused == SelectSeq(<<U1, U2, <<"u", "3">>, <<"u", "4">>>>,
                            LAMBDA u : \A e \in Range(engines) : e.uuid # u)
    IN  [n \in {M1, M2} |-> IF n = M1 THEN unused[1] ELSE unused[2]]

\* result = collect_material_assignments(root, update_uuids); assignments
\* keeps what the call before returned
CaptureMaterialAssignments ==
    /\ pc \in {"capture", "captured"}
    /\ \E root \in CaptureRoots, update_uuids \in BOOLEAN :
        LET names == get_shading_engines(get_hierarchy(root))
            after == AssignUuids(names, update_uuids, FreshUuids)
        IN  /\ get_hierarchy(root) # <<>>
            /\ engines' = after
            /\ result' = collect_material_assignments(root, after)
            /\ args' = [root |-> root, update_uuids |-> update_uuids]
    /\ assignments' = result
    /\ pc' = "captured"
    /\ UNCHANGED <<scene, connections, selection, files, sets, matched_member_assignments,
                   best_shading_assignments, calls,
                   code_modified, callbacks>>

NextCapture == CaptureMaterialAssignments

SpecCapture == InitCapture /\ [][NextCapture]_vars

\* the members entry of a shadingEngine when the ranges of all faces are
\* shortened before the paths are made relative
CollapsedMembers(shading_engine, root) ==
    format_members(remove_namespaces(get_relative_paths(
        filter_bad_face_assignments(
            filter_members_in_hierarchy(get_members(shading_engine),
                                        get_hierarchy(root))),
        root)))

\* C15, as stated: in the snapshot collect_material_assignments returns, a
\* member 'shape.f[0:N-1]' of a shape with N faces is stored as the shape
\* with an empty components list, and a range that does not cover all faces
\* is kept as a component.
C15_FullRangeCollapsed ==
    pc = "captured" =>
        \A r \in result :
            Range(r.members)
                = Range(CollapsedMembers(r.shadingEngine, args.root))

\* C16, as stated: every entry of the snapshot collect_material_assignments
\* returns has at least one member; a shadingEngine whose members all lie
\* outside the hierarchy of root has no entry.
C16_NoEntryWithoutMembers ==
    pc = "captured" => \A r \in result : r.members # <<>>

\* C17: in every call of collect_material_assignments, a captured
\* shadingEngine without meta_uuid gets a value no node carried; a
\* shadingEngine that has one keeps it when update_uuids is False; the
\* snapshot reports the value the node carries after the call; and a
\* meta_uuid changes only on a node that had none or in a call made with
\* update_uuids=True.
C17_UuidStable ==
    [][pc' = "captured" =>
        \A i \in 1..Len(engines) :
            LET old == engines[i].uuid
                new == engines'[i].uuid
                entries == {r \in result' :
                               r.shadingEngine = engines[i].name}
            IN  /\ engines'[i].name = engines[i].name
                /\ (entries # {} /\ old = None) =>
                       /\ new # None
                       /\ \A j \in 1..Len(engines) : engines[j].uuid # new
                /\ (old # None /\ ~ args'.update_uuids) => new = old
                /\ \A r \in entries : r.meta_uuid = new
                /\ new # old => (old = None \/ args'.update_uuids)]_vars

\* two calls in a row, the second with update_uuids=False, report the same
\* meta_uuid for a shadingEngine
C17_Witness ==
    /\ pc = "captured"
    /\ ~ args.update_uuids
    /\ \E r \in result, q \in assignments :
          /\ r.shadingEngine = q.shadingEngine
          /\ r.meta_uuid = q.meta_uuid
          /\ r.meta_uuid # None

\* the nodes the root argument names
CaptureTops ==
    IF args.root = <<"|">> THEN {}
    ELSE {n \in Range(scene) :
             IF Head(args.root) = "|" THEN n = args.root
             ELSE EndsWith(n, <<"|">> \o args.root)}

\* the segments of a node from the last segment of the root above it on,
\* all its segments when the root is '|', without namespace qualifiers
RelativeSegments(n) ==
    IF args.root = <<"|">> THEN MapSeq(BareName, Segments(n))
    ELSE LET top == CHOOSE t \in CaptureTops :
                        n = t \/ StartsWith(n, t \o <<"|">>)
         IN  MapSeq(BareName,
                    SubSeq(Segments(n), Len(Segments(top)), Len(Segments(n))))

\* C18, as stated: every member path of the snapshot is relative to the
\* root captured (it starts at the root's own last segment and holds none of
\* the segments above) and has no namespace qualifier, for a root given with
\* or without a leading '|'.
C18_MemberPathsRelative ==
    pc = "captured" =>
        \A r \in result :
            /\ {Segments(r.members[i].path) : i \in 1..Len(r.members)}
                   = {RelativeSegments(ObjectOf(t)) :
                         t \in HeldBelow(sets[r.shadingEngine], args.root)}
            /\ \A i \in 1..Len(r.members) : Count(r.members[i].path, ":") = 0

-----------------------------------------------------------------------------
(* get_relative_paths *)

\* the most paths handed to get_relative_paths
MaxPaths == 2

\* long names of dag nodes, one of them beside the group g with a name that
\* starts like it
PathsGiven ==
    { <<"|", "g">>, <<"|", "g", "|", "a">>, <<"|", "g", "x", "|", "a">>,
      <<"|", "r", "|", "g", "|", "a">>, <<"|", "r", "|", "g", "|", "b", "|", "a">>,
      <<"|", "A", ":", "g", "|", "A", ":", "a">> }

RootsGiven == { <<"|">>, <<"|", "g">>, <<"|", "r", "|", "g">>, <<"g">> }

InitRelative ==
    /\ scene = <<>>
    /\ connections = {}
    /\ selection = {}
    /\ files = {}
    /\ code_modified = <<>>
    /\ callbacks = <<>>
    /\ engines = <<>>
    /\ sets = NoSets
    /\ assignments = {}
    /\ args \in [paths : UNION {[1..n -> PathsGiven] : n \in 0..MaxPaths},
                 root : RootsGiven]
    /\ matched_member_assignments = <<>>
    /\ best_shading_assignments = <<>>
    /\ calls = <<>>
    /\ result = None
    /\ pc = "ready"

\* get_relative_paths(paths, root)
GetRelativePaths ==
    /\ pc = "ready"
    /\ result' = get_relative_paths(args.paths, args.root)
    /\ pc' = "done"
    /\ UNCHANGED <<scene, connections, selection, files, engines, sets, assignments, args,
                   matched_member_assignments, best_shading_assignments,
                   calls,
                   code_modified, callbacks>>

NextRelative == GetRelativePaths

SpecRelative == InitRelative /\ [][NextRelative]_vars

\* the path starts with the segments of root
UnderRoot(path, root) ==
    /\ Len(Segments(root)) <= Len(Segments(path))
    /\ SubSeq(Segments(path), 1, Len(Segments(root))) = Segments(root)

\* C19, as stated: for a path that does not start with the segments of root
\* get_relative_paths fails with a NotUnderRoot error; it does not return a
\* list that holds such a path unchanged.
C19_FailsOutsideRoot ==
    (/\ pc = "done"
     /\ \E i \in 1..Len(args.paths) : ~ UnderRoot(args.paths[i], args.root))
    => result = <<"NotUnderRoot">>

-----------------------------------------------------------------------------
(* remove_namespaces, utils.strip_namespace *)

\* the most names handed to remove_namespaces
MaxNames == 2

\* names as the host lists them: short and long, in a namespace, in nested
\* namespaces, with a component
NamesGiven ==
    { <<"a">>, <<"A", ":", "a">>, <<"A", ":", "B", ":", "a">>,
      <<"|", "A", ":", "g", "|", "A", ":", "a">>,
      <<"|", "g", "|", "A", ":", "B", ":", "a">>,
      <<"|", "A", ":", "g", "|", "a", ".", "f", "1">>,
      <<"A", "_", "1", ":", "a", ".", "f", "[", "0", ":", "1", "]">>,
      <<"|", "g", "|", "a", ".", "f", "[", "0", ":", "1", "]">> }

\* utils.strip_namespace(node): what follows the last ':' of the node name,
\* with the component put back
strip_namespace(node) ==
    LET name == ObjectOf(node)
        component == ComponentOf(node)
        no_namespace == RpartitionLast(name, ":")
    IN  IF component # <<>> THEN no_namespace \o <<".">> \o component
        ELSE no_namespace

InitStrip ==
    /\ scene = <<>>
    /\ connections = {}
    /\ selection = {}
    /\ files = {}
    /\ code_modified = <<>>
    /\ callbacks = <<>>
    /\ engines = <<>>
    /\ sets = NoSets
    /\ assignments = {}
    /\ args \in [names : UNION {[1..n -> NamesGiven] : n \in 0..MaxNames}]
    /\ matched_member_assignments = <<>>
    /\ best_shading_assignments = <<>>
    /\ calls = <<>>
    /\ result = None
    /\ pc = "ready"

\* remove_namespaces(names)
RemoveNamespaces ==
    /\ pc = "ready"
    /\ result' = remove_namespaces(args.names)
    /\ pc' = "done"
    /\ UNCHANGED <<scene, connections, selection, files, engines, sets, assignments, args,
                   matched_member_assignments, best_shading_assignments,
                   calls,
                   code_modified, callbacks>>

\* list(utils.strip_namespaces(names))
StripNamespaces ==
    /\ pc = "ready"
    /\ result' = MapSeq(strip_namespace, args.names)
    /\ pc' = "done_utils"
    /\ UNCHANGED <<scene, connections, selection, files, engines, sets, assignments, args,
                   matched_member_assignments, best_shading_assignments,
                   calls,
                   code_modified, callbacks>>

NextStrip ==
    \/ RemoveNamespaces
    \/ StripNamespaces

SpecStrip == InitStrip /\ [][NextStrip]_vars

\* C20: remove_namespaces applied to its own result returns it unchanged,
\* and each name of the result is the name given with the namespace
\* qualifier of every segment removed, nested qualifiers included, and its
\* component kept; utils.strip_namespace too returns names without a
\* qualifier that it leaves unchanged when applied again.
C20_StripIdempotentComplete ==
    /\ pc = "done" =>
        /\ remove_namespaces(result) = result
        /\ Len(result) = Len(args.names)
        /\ \A i \in 1..Len(result) :
              /\ Count(ObjectOf(result[i]), ":") = 0
              /\ Segments(ObjectOf(result[i]))
                     = MapSeq(BareName, Segments(ObjectOf(args.names[i])))
              /\ ComponentOf(result[i]) = ComponentOf(args.names[i])
    /\ pc = "done_utils" =>
        /\ MapSeq(strip_namespace, result) = result
        /\ \A i \in 1..Len(result) : Count(ObjectOf(result[i]), ":") = 0

\* a long name with a nested namespace and a name with a component were
\* stripped
C20_Witness ==
    /\ pc = "done"
    /\ \E i \in 1..Len(args.names) :
          /\ Count(ObjectOf(args.names[i]), ":") = 2
          /\ Count(args.names[i], "|") > 0
    /\ \E i \in 1..Len(args.names) :
          /\ Count(ObjectOf(args.names[i]), ":") > 0
          /\ ComponentOf(args.names[i]) # <<>>

-----------------------------------------------------------------------------
(* The calls of assign_shading_engine *)

\* the tokens an entry of best_shading_assignments stands for: the path, or
\* 'path.component' for each of its components
Expanded(b) ==
    IF b.components = <<>> THEN {b.path}
    ELSE {b.path \o <<".">> \o b.components[k] : k \in 1..Len(b.components)}

\* the groups that won a live path
Winners == {b.shadingEngine : b \in Range(best_shading_assignments)}

\* C21: when apply_material_assignments returns, assign_shading_engine was
\* called once for each group that won a live path and for no other group,
\* with every path the group won, expanded to 'path.component' for each of
\* its components, and nothing else.
C21_OneCallPerWinner ==
    (pc = "done" /\ result = "returned") =>
        /\ \A i, j \in 1..Len(calls) :
              calls[i].shading_engine = calls[j].shading_engine => i = j
        /\ {calls[i].shading_engine : i \in 1..Len(calls)} = Winners
        /\ \A i \in 1..Len(calls) :
              /\ Range(calls[i].members) =
                     UNION {Expanded(b) :
                               b \in {x \in Range(best_shading_assignments) :
                                   x.shadingEngine = calls[i].shading_engine}}
              /\ \A k, l \in 1..Len(calls[i].members) :
                     calls[i].members[k] = calls[i].members[l] => k = l

\* one group won two paths, one of them by component, and the other group of
\* the snapshot won nothing
C21_Witness ==
    /\ pc = "done"
    /\ result = "returned"
    /\ Cardinality(assignments) = 2
    /\ Len(calls) = 1
    /\ Cardinality(PathsPassed(calls[1])) = 2
    /\ \E t \in Range(calls[1].members) : ObjectOf(t) # t
    /\ \E c \in Range(matched_member_assignments) :
          c.shadingEngine # calls[1].shading_engine

\* C22, as stated: when assign_shading_engine fails for a group, the
\* run goes on: the call is still made for every other group that won a
\* live path, and the run ends with the failure recorded, not raised.
C22_FailureDoesNotAbort ==
    pc = "done" =>
        /\ \A e \in Winners :
              \E i \in 1..Len(calls) : calls[i].shading_engine = e
        /\ result = "returned"

\* the live group find_shading_engine returns for a group of the snapshot
ResolvedGroup(key) ==
    LET g == CHOOSE g \in assignments : g.shadingEngine = key
    IN  find_shading_engine(RpartitionLast(key, ":"), g.meta_uuid,
                            args.material_namespace)

\* the keys of best_shading_assignments, in the order the third loop takes
\* them
WinnerKeys ==
    Distinct(MapSeq(LAMBDA b : b.shadingEngine, best_shading_assignments))

\* C26, as stated: every assign_shading_engine call of
\* apply_material_assignments is made on the live group find_shading_engine
\* returned for the snapshot group, also when that group's name is not the
\* captured one.
C26_ResolvedGroupMutated ==
    pc = "done" =>
        \A i \in 1..Len(calls) :
            ResolvedGroup(WinnerKeys[i]) # None =>
                calls[i].shading_engine = ResolvedGroup(WinnerKeys[i])

-----------------------------------------------------------------------------
(* apply_material_assignments_v0: a path several groups match *)

\* the components a member token stands for
Faces(token) == {t \in Covered(token) : ObjectOf(t) # t}

\* the components a group holds
FacesHeld(engine) == UNION {Faces(t) : t \in sets[engine]}

\* whether two calls are on different groups and pass the same components
Contend(i, j) ==
    /\ calls[i].shading_engine # calls[j].shading_engine
    /\ \E t \in Range(calls[i].members), u \in Range(calls[j].members) :
           Faces(t) \cap Faces(u) # {}

\* whether call j, on another group, passes components of the token t
Takes(j, i, t) ==
    /\ calls[j].shading_engine # calls[i].shading_engine
    /\ \E u \in Range(calls[j].members) : Faces(t) \cap Faces(u) # {}

\* C27, as stated: after apply_material_assignments_v0, what the first group
\* processed was given is held by that group, whatever later groups were
\* given.
C27_FirstProcessedHolds ==
    (pc = "done_v0" /\ result = "returned") =>
        \A i \in 1..Len(calls) : \A t \in Range(calls[i].members) :
            (\A j \in 1..(i - 1) : ~ Takes(j, i, t)) =>
                Faces(t) \subseteq FacesHeld(calls[i].shading_engine)

\* C27, amended: after apply_material_assignments_v0, what a call passed and
\* no later call on another group passed is held by the call's group and by
\* no other group: a path several groups match belongs to the group processed
\* last.
C27_LastProcessedHolds ==
    (pc = "done_v0" /\ result = "returned") =>
        \A i \in 1..Len(calls) : \A t \in Range(calls[i].members) :
            (\A j \in (i + 1)..Len(calls) : ~ Takes(j, i, t)) =>
                /\ Faces(t) \subseteq FacesHeld(calls[i].shading_engine)
                /\ \A e \in DOMAIN sets \ {calls[i].shading_engine} :
                       Faces(t) \cap FacesHeld(e) = {}

\* a whole node passed to one group and then to the other, held by the other
C27_Witness ==
    /\ pc = "done_v0"
    /\ result = "returned"
    /\ \E i, j \in 1..Len(calls) :
          /\ i < j
          /\ Contend(i, j)
          /\ \E t \in Range(calls[i].members) :
                /\ ObjectOf(t) = t
                /\ t \in Range(calls[j].members)
                /\ t \in sets[calls[j].shading_engine]
                /\ t \notin sets[calls[i].shading_engine]

-----------------------------------------------------------------------------
(* find_matching_paths of shadeset_lite beside the one of materials *)

\* shadeset_lite.find_matching_paths(path, root, namespace, strict): the
\* test on root is match.startswith(root)
lite_find_matching_paths(path, root, namespace, strict) ==
    LET stripped == Lstrip(path, "|")
        rest == IF strict
                THEN <<"|">> \o stripped
                ELSE <<"|">> \o PartitionLast(stripped, "|")
    IN  SelectSeq(LsDag(rest), LAMBDA match :
            /\ ~ (/\ namespace # None
                  /\ namespace # <<>>
                  /\ ~ StartsWith(RpartitionLast(match, "|"), namespace))
            /\ StartsWith(match, root))

\* scenes in which the name of a node starts with the name of its sibling
SiblingScenes ==
    { << <<"|", "g">>, <<"|", "g", "|", "a">>,
         <<"|", "g", "x">>, <<"|", "g", "x", "|", "a">> >>,
      << <<"|", "g">>, <<"|", "g", "|", "a">>, <<"|", "g", "|", "a", "x">>,
         <<"|", "g", "|", "a", "x", "|", "a">> >>,
      << <<"|", "r">>, <<"|", "r", "|", "g">>, <<"|", "r", "|", "g", "|", "a">>,
         <<"|", "r", "x">>, <<"|", "r", "x", "|", "g">>,
         <<"|", "r", "x", "|", "g", "|", "a">> >> }

\* the roots given: the scene, a node, a node with a trailing '|'
LiteRoots == RootsLookedUp \cup { <<"|", "g", "|">>, <<"|", "g", "|", "a">> }

InitMatchLite ==
    /\ scene \in Scenes \cup SiblingScenes
    /\ connections = {}
    /\ selection = {}
    /\ files = {}
    /\ code_modified = <<>>
    /\ callbacks = <<>>
    /\ engines = <<>>
    /\ sets = NoSets
    /\ assignments = {}
    /\ args \in [path : PathsLookedUp, root : LiteRoots,
                 namespace : {None}, strict : BOOLEAN]
    /\ matched_member_assignments = <<>>
    /\ best_shading_assignments = <<>>
    /\ calls = <<>>
    /\ result = None
    /\ pc = "ready"

\* shadeset_lite.find_matching_paths(path, root, namespace, strict)
LiteFindMatchingPaths ==
    /\ pc = "ready"
    /\ result' = lite_find_matching_paths(args.path, args.root,
                                          args.namespace, args.strict)
    /\ pc' = "done_lite"
    /\ UNCHANGED <<scene, connections, selection, files, engines, sets, assignments, args,
                   matched_member_assignments, best_shading_assignments,
                   calls,
                   code_modified, callbacks>>

NextMatchLite ==
    \/ FindMatchingPaths
    \/ LiteFindMatchingPaths

SpecMatchLite == InitMatchLite /\ [][NextMatchLite]_vars

\* C28, as stated: every path find_matching_paths returns lies strictly below
\* root by whole segments, in materials and in shadeset_lite, and the two
\* return the same paths for the same arguments and scene.
C28_BelowRootInBoth ==
    /\ pc = "done" =>
          \A i \in 1..Len(result) : Below(result[i], args.root)
    /\ pc = "done_lite" =>
          /\ \A i \in 1..Len(result) : Below(result[i], args.root)
          /\ result = find_matching_paths(args.path, args.root,
                                          args.namespace, args.strict)

\* the half of C28 that is about materials alone
C28_MaterialsBelowRoot ==
    pc = "done" => \A i \in 1..Len(result) : Below(result[i], args.root)

-----------------------------------------------------------------------------
(* utils.maintains_selection: the wrapper around ShadeSet.apply, export,  *)
(* import_ and reference                                                   *)

\* the nodes of the scene in which the wrapped function runs
SelectionScene ==
    << <<"|", "g">>, <<"|", "g", "|", "a">>, <<"|", "g", "|", "b">> >>

\* Before a call of a wrapped function fn: args.selects is the selection fn
\* leaves (fn may select nodes), args.raises whether fn raises after that
InitSelection ==
    /\ scene = SelectionScene
    /\ connections = {}
    /\ selection \in SUBSET Range(SelectionScene)
    /\ files = {}
    /\ code_modified = <<>>
    /\ callbacks = <<>>
    /\ engines = <<>>
    /\ sets = NoSets
    /\ assignments = {}
    /\ args \in [selects : SUBSET Range(SelectionScene), raises : BOOLEAN]
    /\ matched_member_assignments = <<>>
    /\ best_shading_assignments = <<>>
    /\ calls = <<>>
    /\ result = None
    /\ pc = "ready"

\* wrapper(*args, **kwargs) with a fn that returns: old_selection is read,
\* fn runs, cmds.select(old_selection, replace=True) (taken to clear the
\* selection when old_selection is empty), the result is returned
WrapperReturns ==
    /\ pc = "ready"
    /\ ~ args.raises
    /\ LET old_selection == selection
       IN  selection' = old_selection
    /\ result' = "returned"
    /\ pc' = "done"
    /\ UNCHANGED <<scene, connections, files, engines, sets, assignments, args,
                   matched_member_assignments, best_shading_assignments,
                   calls,
                   code_modified, callbacks>>

\* wrapper(*args, **kwargs) with a fn that raises: the exception leaves the
\* wrapper at the call of fn, before cmds.select
WrapperRaises ==
    /\ pc = "ready"
    /\ args.raises
    /\ selection' = args.selects
    /\ result' = "raised"
    /\ pc' = "done"
    /\ UNCHANGED <<scene, connections, files, engines, sets, assignments, args,
                   matched_member_assignments, best_shading_assignments,
                   calls,
                   code_modified, callbacks>>

NextSelection ==
    \/ WrapperReturns
    \/ WrapperRaises

SpecSelection == InitSelection /\ [][NextSelection]_vars

\* C24, as stated: a call of a function wrapped by maintains_selection
\* leaves the selection as it was before the call, whether the function
\* returns or raises.
C24_SelectionKept ==
    [][pc = "ready" /\ pc' = "done" => selection' = selection]_vars

\* the half of C24 that is about a function that returns
C24_SelectionKeptOnReturn ==
    [][pc = "ready" /\ pc' = "done" /\ result' = "returned"
          => selection' = selection]_vars

-----------------------------------------------------------------------------
(* ShadeSet.export: the output directory *)

\* Paths on disk are sequences of names. What can be on disk before the
\* call: a parent directory, the output directory, files of an earlier
\* export in it, a file beside it
DiskUniverse ==
    { <<"p">>,
      <<"p", "x">>,
      <<"p", "out">>,
      <<"p", "out", "old.yml">>,
      <<"p", "out", "n.yml">> }

\* the directories above a path, and the path
Prefixes(path) == {SubSeq(path, 1, k) : k \in 1..Len(path)}

\* a disk on which every path lies in directories that exist
Disks == {d \in SUBSET DiskUniverse : \A f \in d : Prefixes(f) \subseteq d}

\* the paths at and below a directory: what shutil.rmtree removes
TreeOf(d, dir) ==
    {f \in d : Len(f) >= Len(dir) /\ SubSeq(f, 1, Len(dir)) = dir}

\* the files _export writes, in order: the shaders, then the yml
ShadersFile(outdir, name) == outdir \o <<name \o "_shadingGroups.mb">>

YmlFile(outdir, name) == outdir \o <<name \o ".yml">>

\* The disk after _export(outdir, name), which may raise before it writes
\* anything (fails = "shaders") or once the shaders are written
\* (fails = "yml")
Exported(d, outdir, name, fails) ==
    IF fails = "shaders" THEN d
    ELSE IF fails = "yml" THEN d \cup {ShadersFile(outdir, name)}
    ELSE d \cup {ShadersFile(outdir, name), YmlFile(outdir, name)}

\* export that removes the directory on failure whether it made it or not
export_AlwaysRemoves(d, outdir, name, fails) ==
    LET made == d \cup Prefixes(outdir)
        written == Exported(made, outdir, name, fails)
    IN  IF fails # "no" THEN written \ TreeOf(written, outdir)
        ELSE written

\* The disk after ShadeSet.export(outdir, name)
export(d, outdir, name, fails) ==
    LET made_dir == outdir \notin d
        made == IF made_dir THEN d \cup Prefixes(outdir) ELSE d
        written == Exported(made, outdir, name, fails)
    IN  IF fails # "no" /\ made_dir THEN written \ TreeOf(written, outdir)
        ELSE written

InitExport ==
    /\ scene = <<>>
    /\ connections = {}
    /\ selection = {}
    /\ files \in Disks
    /\ code_modified = <<>>
    /\ callbacks = <<>>
    /\ engines = <<>>
    /\ sets = NoSets
    /\ assignments = {}
    /\ args \in [outdir : {<<"p", "out">>, <<"p">>}, name : {"n", "m"},
                 fails : {"no", "shaders", "yml"}]
    /\ matched_member_assignments = <<>>
    /\ best_shading_assignments = <<>>
    /\ calls = <<>>
    /\ result = None
    /\ pc = "ready"

\* ShadeSet.export(outdir, name); assignments keeps the disk of before
ShadeSetExport ==
    /\ pc = "ready"
    /\ files' = export(files, args.outdir, args.name, args.fails)
    /\ assignments' = files
    /\ result' = IF args.fails # "no" THEN "raised" ELSE "returned"
    /\ pc' = "done"
    /\ UNCHANGED <<scene, connections, selection, engines, sets, args,
                   matched_member_assignments, best_shading_assignments,
                   calls,
                   code_modified, callbacks>>

NextExport == ShadeSetExport

SpecExport == InitExport /\ [][NextExport]_vars

\* C29: when the output directory did not exist before ShadeSet.export and
\* the export fails, the directory is gone after the call and the exception
\* reaches the caller; when the directory existed before, it exists after the
\* call with everything that was in it, whether the export failed or not.
C29_CleansUpOnlyItsOwn ==
    [][pc = "ready" /\ pc' = "done" =>
          /\ (args.outdir \notin files /\ args.fails # "no") =>
                /\ TreeOf(files', args.outdir) = {}
                /\ result' = "raised"
          /\ args.outdir \in files =>
                TreeOf(files, args.outdir) \subseteq files']_vars

\* an export that failed after it made the directory and wrote into it
C29_WitnessMade ==
    /\ pc = "done"
    /\ result = "raised"
    /\ args.fails = "yml"
    /\ args.outdir \notin assignments
    /\ args.outdir \notin files

\* an export that failed in a directory that held files before
C29_Witness ==
    /\ pc = "done"
    /\ result = "raised"
    /\ args.outdir \in assignments
    /\ TreeOf(assignments, args.outdir) # {args.outdir}
    /\ TreeOf(assignments, args.outdir) \subseteq files

-----------------------------------------------------------------------------
(* models.ShadeSet: gather, export and load, apply, gather again *)

\* The scene gathered: three transforms with one shape each. The leaf names
\* are unique, and one (aSD, as a deformed copy is named) starts with
\* another.
ShadeScene ==
    << <<"|", "a">>, <<"|", "a", "|", "a", "S">>,
       <<"|", "b">>, <<"|", "b", "|", "b", "S">>,
       <<"|", "c">>, <<"|", "c", "|", "a", "S", "D">> >>

\* cmds.ls(long=True, transforms=True)
Transforms == SelectSeq(scene, LAMBDA n : n \notin Shapes(scene))

\* utils.get_shape(node): the first shape below the transform, or below the
\* parent of a shape
get_shape(node) ==
    LET xform == IF node \in Shapes(scene)
                 THEN SubSeq(node, 1, Len(node) - Len(RpartitionLast(node, "|")) - 1)
                 ELSE node
        children == SelectSeq(scene, LAMBDA n :
                        /\ n \in Shapes(scene)
                        /\ StartsWith(n, xform \o <<"|">>)
                        /\ Count(n, "|") = Count(xform, "|") + 1)
    IN  IF children = <<>> THEN None ELSE children[1]

\* utils.get_shading_groups(node): the shadingEngines connected to the shape
\* of the node, those that hold it or components of it
get_shading_groups(node) ==
    LET shape == IF node \in Shapes(scene) THEN node ELSE get_shape(node)
    IN  IF shape = None THEN <<>>
        ELSE SelectSeq(MapSeq(LAMBDA e : e.name, engines), LAMBDA name :
                 \E t \in sets[name] : ObjectOf(t) = shape)

\* utils.get_members(shading_group): cmds.sets(shading_group, query=True)
\* lists each member by its shortest unique name, here the leaf name
utils_get_members(shading_group) ==
    MapSeq(LAMBDA t : RpartitionLast(t, "|"), MemberTokens(sets[shading_group]))

\* s.split('|')
RECURSIVE SplitBar(_)
SplitBar(s) ==
    LET bar == {i \in 1..Len(s) : s[i] = "|"}
    IN  IF bar = {} THEN <<s>>
        ELSE LET i == CHOOSE i \in bar : \A j \in bar : i <= j
             IN  <<SubSeq(s, 1, i - 1)>> \o SplitBar(SubSeq(s, i + 1, Len(s)))

\* '|'.join(parts)
RECURSIVE JoinBar(_)
JoinBar(parts) ==
    IF Len(parts) = 1 THEN parts[1]
    ELSE parts[1] \o <<"|">> \o JoinBar(Tail(parts))

\* utils.shorten_name(node)
shorten_name(node) ==
    IF Count(node, "|") > 0
    THEN JoinBar(MapSeq(strip_namespace, SplitBar(node)))
    ELSE strip_namespace(node)

\* utils.add_id(node) on each of these shadingEngines, tagged[name] being
\* the value uuid1 gives for it: the attribute is created when missing, and
\* set to the new value in every case. The meta_id of each node afterwards,
\* kept in the field uuid
add_id(names, tagged) ==
    MapSeq(LAMBDA e :
        IF e.name \in names THEN [e EXCEPT !.uuid = tagged[e.name]] ELSE e,
        engines)

\* utils.node_from_id(_id): the first node whose meta_id is _id
node_from_id(id) ==
    LET nodes == SelectSeq(engines, LAMBDA e : e.uuid # None /\ e.uuid = id)
    IN  IF nodes = <<>> THEN None ELSE nodes[1].name

\* ShadingGroupsSet.gather(selection), tagged[name] being the value add_id
\* returns for the shadingEngine: the dict under 'shadingGroups', as the set
\* of its items
gather(selected, tagged) ==
    LET transforms == IF selected
                      THEN SelectSeq(scene, LAMBDA n : n \in selection)
                      ELSE Transforms
        shading_groups == UNION {Range(get_shading_groups(t)) :
                                    t \in Range(transforms)}
    IN  {[shadingGroup |-> sg,
          meta_id |-> tagged[sg],
          members |-> MapSeq(shorten_name,
                         filter_bad_face_assignments(utils_get_members(sg)))] :
            sg \in {sg \in shading_groups : utils_get_members(sg) # <<>>}}

\* the shadingEngines gather calls add_id on
Gathered(selected) ==
    LET transforms == IF selected
                      THEN SelectSeq(scene, LAMBDA n : n \in selection)
                      ELSE Transforms
    IN  UNION {Range(get_shading_groups(t)) : t \in Range(transforms)}

\* utils.find_members(members): cmds.ls(name + '*', recursive=True,
\* long=True) for each member, with its component when it has one: every
\* node whose name starts with the member's name
find_members(members) ==
    Flatten(MapSeq(LAMBDA member :
        LET found == SelectSeq(scene, LAMBDA n :
                         /\ n \in Shapes(scene)
                         /\ StartsWith(RpartitionLast(RpartitionLast(n, "|"), ":"),
                                       ObjectOf(member)))
        IN  IF ComponentOf(member) = <<>> THEN found
            ELSE MapSeq(LAMBDA n : n \o <<".">> \o ComponentOf(member), found),
        members))

\* utils.member_in_hierarchy(member, *candidates)
member_in_hierarchy(member, candidates) ==
    \E candidate \in candidates :
        StartsWith(ObjectOf(member), candidate \o <<"|">>)

\* The assign_shading_group calls ShadingGroupsSet.apply(shade_set,
\* selection) sets out to make, the items iterated in this order: none for
\* an item without members found
ShadeSetCalls(order, selected) ==
    Flatten(MapSeq(LAMBDA item :
        LET shading_group == node_from_id(item.meta_id)
            found == find_members(item.members)
            members == IF selected
                       THEN SelectSeq(found, LAMBDA m :
                                member_in_hierarchy(m, selection))
                       ELSE found
        IN  IF members = <<>> THEN <<>>
            ELSE <<[shading_engine |-> shading_group, members |-> members]>>,
        order))

\* Before ShadeSet.gather: a scene whose shapes are assigned in some way,
\* shadingEngines that an earlier gather tagged or not, and some transforms
\* selected; args.selection is the argument of gather, args.apply_selection
\* that of apply
InitShadeSet ==
    /\ scene = ShadeScene
    /\ connections = {}
    /\ selection \in SUBSET {n \in Range(ShadeScene) : n \notin Shapes(ShadeScene)}
    /\ files = {}
    /\ code_modified = <<>>
    /\ callbacks = <<>>
    /\ engines \in EngineTags
    /\ sets \in SetsOver(Shapes(ShadeScene))
    /\ assignments = {}
    /\ args \in [selection : BOOLEAN, apply_selection : BOOLEAN]
    /\ matched_member_assignments = <<>>
    /\ best_shading_assignments = <<>>
    /\ calls = <<>>
    /\ result = None
    /\ pc = "ready"

\* pre_shade_set = ShadeSet.gather(selection)
GatherShadeSet ==
    /\ pc = "ready"
    /\ assignments' = gather(args.selection, FreshUuids)
    /\ engines' = add_id(Gathered(args.selection), FreshUuids)
    /\ pc' = "gathered"
    /\ UNCHANGED <<scene, connections, selection, files, sets, args,
                   matched_member_assignments, best_shading_assignments,
                   calls, result,
                   code_modified, callbacks>>

\* A scene with the same geometry and the shadingEngines of the export is
\* opened: nothing is assigned yet, nothing is selected
OpenUnshaded ==
    /\ pc = "gathered"
    /\ \E e \in DOMAIN sets : sets[e] # {}
    /\ sets' = [e \in DOMAIN sets |-> {}]
    /\ selection' = {}
    /\ UNCHANGED <<scene, connections, files, engines, assignments, args,
                   matched_member_assignments, best_shading_assignments,
                   calls, result, pc,
                   code_modified, callbacks>>

\* pre_shade_set.export(outdir, name); shade_set = ShadeSet.load(path);
\* shade_set.apply(selection). The loaded dict is taken to equal the gathered
\* one (yaml.safe_dump and yaml.load of strings and lists of strings); its
\* items are iterated in some order.
ApplyShadeSet ==
    /\ pc = "gathered"
    /\ \E order \in Orders(assignments) :
        LET planned == ShadeSetCalls(order, args.apply_selection)
        IN  /\ calls' = CallsMade(planned)
            /\ sets' = SetsAfter(sets, CallsMade(planned))
            /\ pc' = IF Raises(planned) THEN "raised" ELSE "applied"
    /\ UNCHANGED <<scene, connections, selection, files, engines, assignments,
                   args, matched_member_assignments, best_shading_assignments,
                   result,
                   code_modified, callbacks>>

\* post_shade_set = ShadeSet.gather(selection)
GatherShadeSetAgain ==
    /\ pc = "applied"
    /\ result' = gather(args.selection, FreshUuids)
    /\ engines' = add_id(Gathered(args.selection), FreshUuids)
    /\ pc' = "regathered"
    /\ UNCHANGED <<scene, connections, selection, files, sets, assignments,
                   args, matched_member_assignments, best_shading_assignments,
                   calls,
                   code_modified, callbacks>>

NextShadeSet ==
    \/ GatherShadeSet
    \/ OpenUnshaded
    \/ ApplyShadeSet
    \/ GatherShadeSetAgain

SpecShadeSet == InitShadeSet /\ [][NextShadeSet]_vars

\* the members of each group of a ShadeSet, the identity values aside
MembersByGroup(shade_set) ==
    {[shadingGroup |-> g.shadingGroup, members |-> Range(g.members)] :
        g \in shade_set}

\* C23, as stated: the ShadeSet gathered after applying the loaded ShadeSet
\* equals the one gathered first, the identity value of each shading group
\* included.
C23_RoundTripEqual ==
    pc = "regathered" => result = assignments

\* C23 without the identity values: the same groups with the same members
C23_RoundTripMembers ==
    pc = "regathered" => MembersByGroup(result) = MembersByGroup(assignments)

\* whether a member of a gathered group names a selected node or the shape
\* of one
OfSelected(member) ==
    \E n \in Range(scene) :
        /\ RpartitionLast(n, "|") = ObjectOf(member)
        /\ \E t \in selection : n = t \/ StartsWith(n, t \o <<"|">>)

\* C25, as stated: every member ShadeSet.gather(selection=True) records for
\* a shading group is a selected node (or the shape of one); the members of
\* the group that are not selected are not recorded.
C25_OnlySelectedGathered ==
    [][(pc = "ready" /\ pc' = "gathered" /\ args.selection) =>
          \A g \in assignments' : \A i \in 1..Len(g.members) :
              OfSelected(g.members[i])]_vars

-----------------------------------------------------------------------------
(* callbacks: the hook lines inserted in a mel procedure, and the python  *)
(* callbacks registered with them                                          *)

\* the code of the mel procedure as get_mel_proc_code returns it, and its
\* arguments joined
ProcCode == <<"{", "b", ";", "}">>

ProcArgs == <<"$", "a">>

\* the name of the mel procedure
ProcName == <<"p">>

\* owner or 'PyCallbacks'
PyCallbacks == <<"P", "y", "C", "a", "l", "l", "b", "a", "c", "k", "s">>

\* whether sub occurs in s: re.search(re.escape(sub), s)
Contains(s, sub) ==
    \E i \in 1..(Len(s) - Len(sub) + 1) : SubSeq(s, i, i + Len(sub) - 1) = sub

\* the number of places at which sub occurs in s
Occurrences(s, sub) ==
    Cardinality({i \in 1..(Len(s) - Len(sub) + 1) :
                    SubSeq(s, i, i + Len(sub) - 1) = sub})

\* s.rpartition(c)[0] for a single character c: what comes before the last
\* c, '' when there is none
RpartitionHead(s, c) ==
    LET at == {i \in 1..Len(s) : s[i] = c}
    IN  IF at = {} THEN <<>>
        ELSE SubSeq(s, 1, (CHOOSE i \in at : \A j \in at : j <= i) - 1)

\* 'callbacks -executeCallbacks -hook "{hook}" -owner "{owner}" {args};'
mel_callback(hook, owner) ==
    <<"c", "a", "l", "l", "b", "a", "c", "k", "s", " ", "-", "e", "x", "e",
      "c", "u", "t", "e", "C", "a", "l", "l", "b", "a", "c", "k", "s", " ",
      "-", "h", "o", "o", "k", " ", "\"">>
    \o hook
    \o <<"\"", " ", "-", "o", "w", "n", "e", "r", " ", "\"">>
    \o owner
    \o <<"\"", " ">> \o ProcArgs \o <<";">>

\* insert_mel_proc_callback that inserts the line without looking for it
insert_mel_proc_callback_NoSearch(modified, hook, owner) ==
    LET code == IF modified # <<>> THEN modified ELSE ProcCode
    IN  <<" ", " ", " ", " ">> \o RpartitionHead(code, "}")
        \o mel_callback(hook, owner) \o <<"\n", "}">>

\* insert_mel_proc_callback(proc, hook, owner): the code_modified of the
\* procedure afterwards, modified being the one before
insert_mel_proc_callback(modified, hook, owner) ==
    LET code == IF modified # <<>> THEN modified ELSE ProcCode
    IN  IF Contains(modified, mel_callback(hook, owner)) THEN modified
        ELSE <<" ", " ", " ", " ">> \o RpartitionHead(code, "}")
             \o mel_callback(hook, owner) \o <<"\n", "}">>

\* the hook and owner arguments of a call: both left out, a hook given, an
\* owner given
HookOwnerArgs == { <<None, None>>, <<<<"h">>, None>>, <<None, <<"o">>>> }

\* the python callbacks registered
CallbacksGiven == {"c1", "c2"}

\* owner = owner or 'PyCallbacks'; hook = hook or mel_proc + owner
OwnerOf(owner) == IF owner = None THEN PyCallbacks ELSE owner

HookOf(hook, owner) == IF hook = None THEN ProcName \o OwnerOf(owner) ELSE hook

\* list_mel_proc_callbacks(mel_proc, hook, owner)
list_mel_proc_callbacks(hook, owner) ==
    IF <<hook, owner>> \in DOMAIN callbacks THEN callbacks[<<hook, owner>>]
    ELSE <<>>

\* the host's registry with the callbacks of one <<hook, owner>> replaced
WithCallbacks(hook, owner, list) ==
    [k \in DOMAIN callbacks \cup {<<hook, owner>>} |->
        IF k = <<hook, owner>> THEN list ELSE callbacks[k]]

InitCallbacks ==
    /\ scene = <<>>
    /\ connections = {}
    /\ selection = {}
    /\ files = {}
    /\ code_modified = <<>>
    /\ callbacks = <<>>
    /\ engines = <<>>
    /\ sets = NoSets
    /\ assignments = {}
    /\ args = None
    /\ matched_member_assignments = <<>>
    /\ best_shading_assignments = <<>>
    /\ calls = <<>>
    /\ result = None
    /\ pc = "ready"

\* register_mel_proc_callback(mel_proc, callback, hook, owner)
RegisterMelProcCallback ==
    /\ \E callback \in CallbacksGiven, given \in HookOwnerArgs :
        LET owner == OwnerOf(given[2])
            hook == HookOf(given[1], given[2])
        IN  /\ code_modified' = insert_mel_proc_callback(code_modified, hook, owner)
            /\ callbacks' =
                 IF callback \notin Range(list_mel_proc_callbacks(hook, owner))
                 THEN WithCallbacks(hook, owner,
                          Append(list_mel_proc_callbacks(hook, owner), callback))
                 ELSE callbacks
            /\ args' = [hook |-> hook, owner |-> owner]
    /\ pc' = "registered"
    /\ UNCHANGED <<scene, connections, selection, files, engines, sets,
                   assignments, matched_member_assignments,
                   best_shading_assignments, calls, result>>

\* unregister_mel_proc_callback(mel_proc, callback, hook, owner)
UnregisterMelProcCallback ==
    /\ \E callback \in CallbacksGiven, given \in HookOwnerArgs :
        LET owner == OwnerOf(given[2])
            hook == HookOf(given[1], given[2])
        IN  /\ callbacks' =
                 IF callback \in Range(list_mel_proc_callbacks(hook, owner))
                 THEN WithCallbacks(hook, owner,
                          SelectSeq(list_mel_proc_callbacks(hook, owner),
                                    LAMBDA c : c # callback))
                 ELSE callbacks
            /\ args' = [hook |-> hook, owner |-> owner]
    /\ pc' = "unregistered"
    /\ UNCHANGED <<scene, connections, selection, files, code_modified,
                   engines, sets, assignments, matched_member_assignments,
                   best_shading_assignments, calls, result>>

NextCallbacks ==
    \/ RegisterMelProcCallback
    \/ UnregisterMelProcCallback

SpecCallbacks == InitCallbacks /\ [][NextCallbacks]_vars

\* the <<hook, owner>> pairs the calls can name
HookOwners == {<<HookOf(g[1], g[2]), OwnerOf(g[2])>> : g \in HookOwnerArgs}

\* C30: after every register_mel_proc_callback or
\* unregister_mel_proc_callback call, the hook line of each (hook, owner)
\* occurs at most once in the modified code of the procedure, every hook line
\* that was in it before the call is still in it, and no callback is listed
\* twice for a (hook, owner).
C30_HookOnceAndKept ==
    [][\A k \in HookOwners :
          /\ Occurrences(code_modified', mel_callback(k[1], k[2])) <= 1
          /\ Contains(code_modified, mel_callback(k[1], k[2]))
                => Contains(code_modified', mel_callback(k[1], k[2]))
          /\ k \in DOMAIN callbacks' =>
                \A i, j \in 1..Len(callbacks'[k]) :
                    callbacks'[k][i] = callbacks'[k][j] => i = j]_vars

\* two hook lines in the code, and a register call for a pair whose hook
\* line was in place, with which two callbacks are registered
C30_Witness ==
    /\ pc = "registered"
    /\ \E k, l \in HookOwners :
          /\ k # l
          /\ Contains(code_modified, mel_callback(k[1], k[2]))
          /\ Contains(code_modified, mel_callback(l[1], l[2]))
          /\ k \in DOMAIN callbacks
          /\ Len(callbacks[k]) = 2
          /\ args.hook = k[1]
          /\ args.owner = k[2]

====
